---- MODULE Spec2Model ----
(***************************************************************************)
(* Clause Risk Analysis Engine of legal_assistant_sme:                     *)
(*   modules/risk_analyzer.py      RiskAnalyzer                            *)
(*   modules/document_processor.py DocumentProcessor.segment_clauses       *)
(*   modules/language_detector.py  LanguageDetector                        *)
(*   modules/hindi_translator.py   HindiToEnglishNormalizer                *)
(*   modules/nlp_pipeline.py       NLPProcessor (the clause classifiers)   *)
(*   app.py                        the session of the application          *)
(* Texts are strings; a character is a string of length 1.  Offsets that   *)
(* the Python code counts from 0 are counted from 0 here as well, and are  *)
(* converted where a string is indexed (TLA+ indexes from 1).              *)
(***************************************************************************)
EXTENDS Integers, Sequences, FiniteSets, TLC

VARIABLES
    pc,              \* position of the run: "input" before the call, "done" after
    clause_text,     \* analyze_clause_risk: argument clause_text
    clause_type,     \* analyze_clause_risk: argument clause_type
    analysis,        \* analyze_clause_risk: the returned dict
    clause_analyses, \* calculate_composite_risk: argument clause_analyses
    composite,       \* calculate_composite_risk: the returned dict
    text,            \* segment_clauses, detect_language, normalize_text: argument text
    clauses,         \* segment_clauses: the returned list; app.py: st.session_state.clauses
    profile,         \* detect_language: the returned dict
    normalized,      \* normalize_text: the returned string
    found_terms,     \* translate_key_terms: the keys of the returned dict
    classified,      \* the types returned by the two classifiers
    tables,          \* a RiskAnalyzer instance: self.risk_patterns, self.alternatives
    calls,           \* the calls of analyze_clause_risk made on the instance
    contract_text,   \* app.py: st.session_state.contract_text
    text_input,      \* app.py: the contract the input widgets hold ("" if none)
    analysis_results, \* app.py: st.session_state.analysis_results (<< >> is None, <<d>> the dict d)
    detailed_report, \* app.py: st.session_state.detailed_report (<< >> is None, <<d>> the dict d)
    llm_handler,     \* app.py: the class of llm_handler
    clock,           \* app.py: the time datetime.now() gives
    history          \* the last handler that ran, what it did and the results it found

multilingual_vars == <<profile, normalized, found_terms, classified>>
analyzer_vars == <<tables, calls>>
app_vars == <<contract_text, text_input, analysis_results, detailed_report,
              llm_handler, clock, history>>

vars == <<pc, clause_text, clause_type, analysis, clause_analyses, composite,
          text, clauses, profile, normalized, found_terms, classified,
          tables, calls, contract_text, text_input, analysis_results,
          detailed_report, llm_handler, clock, history>>

----------------------------------------------------------------------------
(* Characters and strings                                                  *)

\* the character of s at index i (1-based), "" outside of s
CharAt(s, i) == IF 1 <= i /\ i <= Len(s) THEN SubSeq(s, i, i) ELSE ""

Min(a, b) == IF a < b THEN a ELSE b
Max(a, b) == IF a > b THEN a ELSE b

SetMin(S) == CHOOSE x \in S : \A y \in S : x <= y
SetMax(S) == CHOOSE x \in S : \A y \in S : x >= y

\* \s of the re module and the characters str.strip() removes
\* (the ASCII ones that the texts of the model use).
IsSpace(c) == c \in {" ", "\n", "\t"}

\* \d of the re module (ASCII digits).
IsDigit(c) == c \in {"0", "1", "2", "3", "4", "5", "6", "7", "8", "9"}

\* [A-Z]
IsUpper(c) ==
    c \in {"A", "B", "C", "D", "E", "F", "G", "H", "I", "J", "K", "L", "M",
           "N", "O", "P", "Q", "R", "S", "T", "U", "V", "W", "X", "Y", "Z"}

\* [a-z]
IsLower(c) ==
    c \in {"a", "b", "c", "d", "e", "f", "g", "h", "i", "j", "k", "l", "m",
           "n", "o", "p", "q", "r", "s", "t", "u", "v", "w", "x", "y", "z"}

\* \w of the re module (ASCII word characters).
IsWord(c) == IsUpper(c) \/ IsLower(c) \/ IsDigit(c) \/ c = "_"

UpperToLower ==
    [c \in {"A", "B", "C", "D", "E", "F", "G", "H", "I", "J", "K", "L", "M",
            "N", "O", "P", "Q", "R", "S", "T", "U", "V", "W", "X", "Y", "Z"} |->
        CASE c = "A" -> "a" [] c = "B" -> "b" [] c = "C" -> "c" [] c = "D" -> "d"
          [] c = "E" -> "e" [] c = "F" -> "f" [] c = "G" -> "g" [] c = "H" -> "h"
          [] c = "I" -> "i" [] c = "J" -> "j" [] c = "K" -> "k" [] c = "L" -> "l"
          [] c = "M" -> "m" [] c = "N" -> "n" [] c = "O" -> "o" [] c = "P" -> "p"
          [] c = "Q" -> "q" [] c = "R" -> "r" [] c = "S" -> "s" [] c = "T" -> "t"
          [] c = "U" -> "u" [] c = "V" -> "v" [] c = "W" -> "w" [] c = "X" -> "x"
          [] c = "Y" -> "y" [] c = "Z" -> "z"]

\* str.lower(); also the case folding of re.IGNORECASE, whose patterns are
\* all written in lower case.
RECURSIVE Lower(_)
Lower(s) ==
    IF s = "" THEN ""
    ELSE IF Len(s) = 1 THEN (IF IsUpper(s) THEN UpperToLower[s] ELSE s)
    ELSE LET half == Len(s) \div 2
         IN  Lower(SubSeq(s, 1, half)) \o Lower(SubSeq(s, half + 1, Len(s)))

\* lit occurs in s at index i (1-based)
OccursAt(lit, s, i) ==
    /\ i >= 1
    /\ i + Len(lit) - 1 <= Len(s)
    /\ SubSeq(s, i, i + Len(lit) - 1) = lit

\* the Python test `key in s`
Contains(s, key) == \E i \in 1..(Len(s) + 1) : OccursAt(key, s, i)

\* str.strip()
Strip(s) ==
    LET kept == {i \in 1..Len(s) : ~IsSpace(CharAt(s, i))}
    IN  IF kept = {} THEN "" ELSE SubSeq(s, SetMin(kept), SetMax(kept))

----------------------------------------------------------------------------
(* Regular expressions of risk_analyzer.py                                 *)
(*                                                                         *)
(* Every pattern of the risk tables is a list of pieces joined by `.*`.    *)
(* A piece is a literal, or `\d+` followed at once by a literal.  `.` does *)
(* not match a newline, so a match lies within one line.  All searches are *)
(* made with re.IGNORECASE and all literals are lower case: the search is  *)
(* made in the lower-cased text, which the operators below take as their   *)
(* argument s (Fold(text)).  Every pattern starts with a literal.          *)

Lit(s) == [digits |-> FALSE, lit |-> s]
Num(s) == [digits |-> TRUE, lit |-> s]

NoMatch == [found |-> FALSE]

\* the piece can end a match that uses index i as its last free choice:
\* a literal starts at i; for `\d+lit` a digit stands at i and lit follows.
PieceAt(piece, s, i) ==
    IF piece.digits
    THEN IsDigit(CharAt(s, i)) /\ OccursAt(piece.lit, s, i + 1)
    ELSE OccursAt(piece.lit, s, i)

\* index after the piece matched at i
PieceEnd(piece, i) == i + Len(piece.lit) + (IF piece.digits THEN 1 ELSE 0)

\* index of the first newline at or after i, Len(s) + 1 if there is none
LineEnd(s, i) ==
    LET nl == {j \in i..Len(s) : CharAt(s, j) = "\n"}
    IN  IF nl = {} THEN Len(s) + 1 ELSE SetMin(nl)

\* pieces k..last matched in order at or after `from` and before `limit`,
\* each at its earliest place: the index after piece `last`, 0 if impossible.
RECURSIVE ChainEnd(_, _, _, _, _, _)
ChainEnd(pieces, k, last, s, from, limit) ==
    IF k > last THEN from
    ELSE LET at == {p \in from..(limit - 1) :
                       PieceAt(pieces[k], s, p) /\ PieceEnd(pieces[k], p) <= limit}
         IN  IF at = {} THEN 0
             ELSE ChainEnd(pieces, k + 1, last, s,
                           PieceEnd(pieces[k], SetMin(at)), limit)

\* a match of the whole pattern starts at i
MatchesAt(pieces, s, i) ==
    /\ PieceAt(pieces[1], s, i)
    /\ PieceEnd(pieces[1], i) <= LineEnd(s, i)
    /\ ChainEnd(pieces, 2, Len(pieces), s, PieceEnd(pieces[1], i), LineEnd(s, i)) # 0

\* the text as a search with re.IGNORECASE compares it
Fold(txt) == Lower(txt)

\* re.search(pattern, text, re.IGNORECASE) with s = Fold(text): the leftmost
\* match, each `.*` as long as possible.  start and end are the 0-based
\* match.start() and match.end().
re_search(pieces, s) ==
    LET starts == {i \in 1..Len(s) : MatchesAt(pieces, s, i)}
    IN  IF starts = {} THEN NoMatch
        ELSE LET i     == SetMin(starts)
                 n     == Len(pieces)
                 limit == LineEnd(s, i)
                 first == PieceEnd(pieces[1], i)
                 prev  == ChainEnd(pieces, 2, n - 1, s, first, limit)
                 ends  == {PieceEnd(pieces[n], p) : p \in
                              {q \in prev..(limit - 1) :
                                  PieceAt(pieces[n], s, q)
                                  /\ PieceEnd(pieces[n], q) <= limit}}
             IN  [found |-> TRUE,
                  start |-> i - 1,
                  end   |-> (IF n = 1 THEN first ELSE SetMax(ends)) - 1]

\* `if re.search(...)`
Matches(pieces, s) == re_search(pieces, s).found

----------------------------------------------------------------------------
(* RiskAnalyzer.__init__                                                   *)

TierNames == <<"high_risk", "medium_risk", "low_risk">>

risk_patterns ==
    [high_risk |-> <<
        [pattern |-> <<Lit("unlimited liability")>>,
         explanation |-> "Unlimited liability exposes business to catastrophic risk"],
        [pattern |-> <<Lit("indemnify"), Lit("for"), Lit("negligence")>>,
         explanation |-> "Indemnifying for others' negligence is extremely risky"],
        [pattern |-> <<Lit("penalty"), Num("%"), Lit("per month")>>,
         explanation |-> "High penalty rates can be punitive"],
        [pattern |-> <<Lit("sole discretion"), Lit("terminate")>>,
         explanation |-> "Unilateral termination rights are unfair"],
        [pattern |-> <<Lit("automatic renewal"), Lit("without notice")>>,
         explanation |-> "Auto-renewal without notice creates lock-in"],
        [pattern |-> <<Lit("jurisdiction"), Lit("foreign country")>>,
         explanation |-> "Foreign jurisdiction increases legal costs"],
        [pattern |-> <<Lit("assign"), Lit("without consent")>>,
         explanation |-> "Assignment without consent may transfer obligations unfairly"] >>,
     medium_risk |-> <<
        [pattern |-> <<Lit("confidentiality"), Lit("indefinite")>>,
         explanation |-> "Indefinite confidentiality may be unreasonable"],
        [pattern |-> <<Lit("non-compete"), Num(" years")>>,
         explanation |-> "Long non-compete periods may restrict business"],
        [pattern |-> <<Lit("force majeure"), Lit("exclusive remedy")>>,
         explanation |-> "Limited force majeure protection"],
        [pattern |-> <<Lit("governing law"), Lit("another state")>>,
         explanation |-> "Different state law increases complexity"],
        [pattern |-> <<Lit("payment terms"), Num(" days")>>,
         explanation |-> "Long payment terms affect cash flow"],
        [pattern |-> <<Lit("warranty"), Lit("as is")>>,
         explanation |-> "'As is' warranty provides no protection"] >>,
     low_risk |-> <<
        [pattern |-> <<Lit("notice"), Lit("in writing")>>,
         explanation |-> "Written notice requirement is standard"],
        [pattern |-> <<Lit("entire agreement")>>,
         explanation |-> "Entire agreement clause is standard"],
        [pattern |-> <<Lit("severability")>>,
         explanation |-> "Severability clause is protective"],
        [pattern |-> <<Lit("counterparts")>>,
         explanation |-> "Counterparts clause is standard"] >>]

\* the dict self.alternatives, in insertion order
alternatives == <<
    [key |-> "unlimited liability",
     suggestion |-> "Suggest capping liability to contract value or insurance limits"],
    [key |-> "sole discretion",
     suggestion |-> "Suggest requiring 'reasonable grounds' or mutual agreement"],
    [key |-> "automatic renewal",
     suggestion |-> "Suggest requiring 30-60 day notice before renewal"],
    [key |-> "foreign jurisdiction",
     suggestion |-> "Suggest local jurisdiction or neutral arbitration venue"],
    [key |-> "indefinite confidentiality",
     suggestion |-> "Suggest 2-5 year term after contract end"] >>

\* the instance that RiskAnalyzer() constructs
RiskAnalyzer == [risk_patterns |-> risk_patterns, alternatives |-> alternatives]

----------------------------------------------------------------------------
(* RiskAnalyzer                                                            *)

ContextWindow == 50
MaxIssues == 5
MaxSuggestions == 3
MaxScore == 10

\* the weights of analyze_clause_risk: high_risk += 3, medium_risk += 2,
\* low_risk += 1
TierWeight(tier) ==
    IF tier = "high_risk" THEN 3
    ELSE IF tier = "medium_risk" THEN 2
    ELSE IF tier = "low_risk" THEN 1
    ELSE 0

\* str.capitalize()
Capitalize(s) ==
    IF s = "" THEN ""
    ELSE LET c == CharAt(s, 1)
             u == IF IsLower(c)
                  THEN CHOOSE x \in DOMAIN UpperToLower : UpperToLower[x] = c
                  ELSE c
         IN  u \o Lower(SubSeq(s, 2, Len(s)))

\* risk_level.split('_')[0].capitalize()
TierLabel(tier) ==
    LET us == {i \in 1..Len(tier) : CharAt(tier, i) = "_"}
    IN  Capitalize(IF us = {} THEN tier ELSE SubSeq(tier, 1, SetMin(us) - 1))

\* _extract_context(text, pattern), s = Fold(text)
extract_context(txt, s, pattern) ==
    LET match == re_search(pattern, s)
    IN  IF match.found
        THEN LET start == Max(0, match.start - ContextWindow)
                 end   == Min(Len(txt), match.end + ContextWindow)
             IN  SubSeq(txt, start + 1, end)
        ELSE ""

\* the loop of _generate_suggestion over self.alternatives, from entry k;
\* lowered is issue.lower()
RECURSIVE SuggestionFrom(_, _, _)
SuggestionFrom(self, k, lowered) ==
    IF k > Len(self.alternatives) THEN ""
    ELSE IF Contains(lowered, self.alternatives[k].key)
         THEN self.alternatives[k].suggestion
         ELSE SuggestionFrom(self, k + 1, lowered)

generate_suggestion(self, issue) == SuggestionFrom(self, 1, Lower(issue))

\* variant of score_to_level: thresholds exclusive
score_to_level_exclusive(num, den) ==
    IF num > 7 * den THEN "High"
    ELSE IF num > 4 * den THEN "Medium"
    ELSE "Low"

\* _score_to_level(score) for the number score = num/den, den > 0: an int
\* score is num/1, the float avg_score * 2 is 2*total_score/n
score_to_level(num, den) ==
    IF num >= 7 * den THEN "High"
    ELSE IF num >= 4 * den THEN "Medium"
    ELSE "Low"

\* variant of get_clause_type_risks: a named city raises the risk
get_clause_type_risks_city_raises(ctype, txt) ==
    LET s == Fold(txt) IN
    IF ctype = "Indemnity"
    THEN [additional_risk |-> 2,
          issues |-> IF Matches(<<Lit("indemnify"), Lit("all")>>, s)
                     THEN << [issue |-> "Broad 'all losses' indemnity may include indirect/consequential damages",
                              risk_level |-> "High",
                              context |-> "Indemnity clause scope"] >>
                     ELSE << >>]
    ELSE IF ctype = "Termination"
    THEN IF Matches(<<Lit("without cause")>>, s)
         THEN [additional_risk |-> 3,
               issues |-> << [issue |-> "'Without cause' termination provides no stability",
                              risk_level |-> "High",
                              context |-> "Termination conditions"] >>]
         ELSE [additional_risk |-> 0, issues |-> << >>]
    ELSE IF ctype = "Jurisdiction"
    THEN IF \/ Matches(<<Lit("delhi")>>, s)
            \/ Matches(<<Lit("mumbai")>>, s)
            \/ Matches(<<Lit("bangalore")>>, s)
         THEN [additional_risk |-> 1,
               issues |-> << [issue |-> "Local Indian jurisdiction is preferable for SMEs",
                              risk_level |-> "Low",
                              context |-> "Jurisdiction specification"] >>]
         ELSE [additional_risk |-> 0, issues |-> << >>]
    ELSE [additional_risk |-> 0, issues |-> << >>]

get_clause_type_risks(ctype, txt) ==
    LET s == Fold(txt) IN
    IF ctype = "Indemnity"
    THEN [additional_risk |-> 2,
          issues |-> IF Matches(<<Lit("indemnify"), Lit("all")>>, s)
                     THEN << [issue |-> "Broad 'all losses' indemnity may include indirect/consequential damages",
                              risk_level |-> "High",
                              context |-> "Indemnity clause scope"] >>
                     ELSE << >>]
    ELSE IF ctype = "Termination"
    THEN IF Matches(<<Lit("without cause")>>, s)
         THEN [additional_risk |-> 3,
               issues |-> << [issue |-> "'Without cause' termination provides no stability",
                              risk_level |-> "High",
                              context |-> "Termination conditions"] >>]
         ELSE [additional_risk |-> 0, issues |-> << >>]
    ELSE IF ctype = "Jurisdiction"
    THEN IF \/ Matches(<<Lit("delhi")>>, s)
            \/ Matches(<<Lit("mumbai")>>, s)
            \/ Matches(<<Lit("bangalore")>>, s)
         THEN [additional_risk |-> -1,
               issues |-> << [issue |-> "Local Indian jurisdiction is preferable for SMEs",
                              risk_level |-> "Low",
                              context |-> "Jurisdiction specification"] >>]
         ELSE [additional_risk |-> 0, issues |-> << >>]
    ELSE [additional_risk |-> 0, issues |-> << >>]

\* variant of CheckPatterns: the first match of a tier ends the tier
RECURSIVE CheckPatternsFirstMatch(_, _, _, _, _, _)
CheckPatternsFirstMatch(self, t, k, txt, s, acc) ==
    IF t > Len(TierNames) THEN acc
    ELSE LET tier     == TierNames[t]
             patterns == self.risk_patterns[tier]
         IN  IF k > Len(patterns) THEN CheckPatternsFirstMatch(self, t + 1, 1, txt, s, acc)
             ELSE IF Matches(patterns[k].pattern, s)
                  THEN CheckPatternsFirstMatch(self, t + 1, 1, txt, s,
                         [risk_score |-> acc.risk_score + TierWeight(tier),
                          issues |-> Append(acc.issues,
                             [issue |-> patterns[k].explanation,
                              risk_level |-> TierLabel(tier),
                              context |-> extract_context(txt, s, patterns[k].pattern)])])
                  ELSE CheckPatternsFirstMatch(self, t, k + 1, txt, s, acc)

\* the two nested loops of analyze_clause_risk over self.risk_patterns:
\* tier t of TierNames, pattern k of the tier, s = Fold(txt), acc the
\* locals risk_score and issues
RECURSIVE CheckPatterns(_, _, _, _, _, _)
CheckPatterns(self, t, k, txt, s, acc) ==
    IF t > Len(TierNames) THEN acc
    ELSE LET tier     == TierNames[t]
             patterns == self.risk_patterns[tier]
         IN  IF k > Len(patterns) THEN CheckPatterns(self, t + 1, 1, txt, s, acc)
             ELSE IF Matches(patterns[k].pattern, s)
                  THEN CheckPatterns(self, t, k + 1, txt, s,
                         [risk_score |-> acc.risk_score + TierWeight(tier),
                          issues |-> Append(acc.issues,
                             [issue |-> patterns[k].explanation,
                              risk_level |-> TierLabel(tier),
                              context |-> extract_context(txt, s, patterns[k].pattern)])])
                  ELSE CheckPatterns(self, t, k + 1, txt, s, acc)

\* variant of CollectSuggestions: the empty suggestion is collected as well
RECURSIVE CollectSuggestionsUnfiltered(_, _, _)
CollectSuggestionsUnfiltered(self, issues, k) ==
    IF k > Len(issues) THEN << >>
    ELSE <<generate_suggestion(self, issues[k].issue)>>
             \o CollectSuggestionsUnfiltered(self, issues, k + 1)

\* the loop `for issue in issues` that collects the non-empty suggestions
RECURSIVE CollectSuggestions(_, _, _)
CollectSuggestions(self, issues, k) ==
    IF k > Len(issues) THEN << >>
    ELSE LET suggestion == generate_suggestion(self, issues[k].issue)
         IN  (IF suggestion # "" THEN <<suggestion>> ELSE << >>)
                 \o CollectSuggestions(self, issues, k + 1)

\* seq[:n]
Prefix(seq, n) == SubSeq(seq, 1, Min(n, Len(seq)))

\* variant of analyze_clause_risk: the type-specific issues come first
analyze_clause_risk_type_first(self, txt, ctype) ==
    LET matched     == CheckPatterns(self, 1, 1, txt, Fold(txt),
                                     [risk_score |-> 0, issues |-> << >>])
        type_risks  == get_clause_type_risks(ctype, txt)
        risk_score  == matched.risk_score + type_risks.additional_risk
        issues      == type_risks.issues \o matched.issues
        suggestions == CollectSuggestions(self, issues, 1)
        normalized_score == Min(MaxScore, risk_score)
    IN  [risk_score  |-> normalized_score,
         risk_level  |-> score_to_level(normalized_score, 1),
         issues      |-> Prefix(issues, MaxIssues),
         suggestions |-> Prefix(suggestions, MaxSuggestions),
         clause_type |-> ctype]

analyze_clause_risk(self, txt, ctype) ==
    LET matched     == CheckPatterns(self, 1, 1, txt, Fold(txt),
                                     [risk_score |-> 0, issues |-> << >>])
        type_risks  == get_clause_type_risks(ctype, txt)
        risk_score  == matched.risk_score + type_risks.additional_risk
        issues      == matched.issues \o type_risks.issues
        suggestions == CollectSuggestions(self, issues, 1)
        normalized_score == Min(MaxScore, risk_score)
    IN  [risk_score  |-> normalized_score,
         risk_level  |-> score_to_level(normalized_score, 1),
         issues      |-> Prefix(issues, MaxIssues),
         suggestions |-> Prefix(suggestions, MaxSuggestions),
         clause_type |-> ctype]

\* calculate_composite_risk.  avg_score is the quotient total/n of two
\* integers; score = round(avg_score, 1) is held in tenths (40 is 4.0).
\* round() rounds to the nearest tenth and an exact tie (total/n ending in
\* .25 or .75, exact in binary) to the even tenth; below 20 clauses no other
\* tie exists.
RECURSIVE SumScores(_, _)
SumScores(analyses, k) ==
    IF k > Len(analyses) THEN 0
    ELSE analyses[k].risk_score + SumScores(analyses, k + 1)

RoundTenths(total, n) ==
    LET lo   == (10 * total) \div n
        rest == 10 * total - lo * n
    IN  IF 2 * rest < n THEN lo
        ELSE IF 2 * rest > n THEN lo + 1
        ELSE IF lo % 2 = 0 THEN lo ELSE lo + 1

\* variant of calculate_composite_risk: overall_risk from the plain average
calculate_composite_risk_undoubled(analyses) ==
    IF Len(analyses) = 0
    THEN [overall_risk |-> "Low", score |-> 0]
    ELSE LET total_score == SumScores(analyses, 1)
             n           == Len(analyses)
             high_risk_clauses   == SelectSeq(analyses, LAMBDA c : c.risk_level = "High")
             medium_risk_clauses == SelectSeq(analyses, LAMBDA c : c.risk_level = "Medium")
         IN  [overall_risk |-> score_to_level(total_score, n),
              score |-> RoundTenths(total_score, n),
              high_risk_count |-> Len(high_risk_clauses),
              medium_risk_count |-> Len(medium_risk_clauses),
              total_clauses |-> n,
              risk_distribution |->
                  [high |-> Len(high_risk_clauses),
                   medium |-> Len(medium_risk_clauses),
                   low |-> n - Len(high_risk_clauses) - Len(medium_risk_clauses)]]

\* variant of calculate_composite_risk: the empty input gets the full record
calculate_composite_risk_full_empty(analyses) ==
    LET n == Len(analyses)
        total_score == SumScores(analyses, 1)
        high_risk_clauses   == SelectSeq(analyses, LAMBDA c : c.risk_level = "High")
        medium_risk_clauses == SelectSeq(analyses, LAMBDA c : c.risk_level = "Medium")
    IN  [overall_risk |-> IF n = 0 THEN "Low" ELSE score_to_level(2 * total_score, n),
         score |-> IF n = 0 THEN 0 ELSE RoundTenths(total_score, n),
         high_risk_count |-> Len(high_risk_clauses),
         medium_risk_count |-> Len(medium_risk_clauses),
         total_clauses |-> n,
         risk_distribution |->
             [high |-> Len(high_risk_clauses),
              medium |-> Len(medium_risk_clauses),
              low |-> n - Len(high_risk_clauses) - Len(medium_risk_clauses)]]

\* variant of calculate_composite_risk: low counts every clause not High
calculate_composite_risk_low_miscounted(analyses) ==
    IF Len(analyses) = 0
    THEN [overall_risk |-> "Low", score |-> 0]
    ELSE LET total_score == SumScores(analyses, 1)
             n           == Len(analyses)
             high_risk_clauses   == SelectSeq(analyses, LAMBDA c : c.risk_level = "High")
             medium_risk_clauses == SelectSeq(analyses, LAMBDA c : c.risk_level = "Medium")
         IN  [overall_risk |-> score_to_level(2 * total_score, n),
              score |-> RoundTenths(total_score, n),
              high_risk_count |-> Len(high_risk_clauses),
              medium_risk_count |-> Len(medium_risk_clauses),
              total_clauses |-> n,
              risk_distribution |->
                  [high |-> Len(high_risk_clauses),
                   medium |-> Len(medium_risk_clauses),
                   low |-> n - Len(high_risk_clauses)]]

calculate_composite_risk(analyses) ==
    IF Len(analyses) = 0
    THEN [overall_risk |-> "Low", score |-> 0]
    ELSE LET total_score == SumScores(analyses, 1)
             n           == Len(analyses)
             high_risk_clauses   == SelectSeq(analyses, LAMBDA c : c.risk_level = "High")
             medium_risk_clauses == SelectSeq(analyses, LAMBDA c : c.risk_level = "Medium")
         IN  [overall_risk |-> score_to_level(2 * total_score, n),
              score |-> RoundTenths(total_score, n),
              high_risk_count |-> Len(high_risk_clauses),
              medium_risk_count |-> Len(medium_risk_clauses),
              total_clauses |-> n,
              risk_distribution |->
                  [high |-> Len(high_risk_clauses),
                   medium |-> Len(medium_risk_clauses),
                   low |-> n - Len(high_risk_clauses) - Len(medium_risk_clauses)]]

----------------------------------------------------------------------------
(* DocumentProcessor.segment_clauses                                       *)

MinSegments == 3
TextLimit == 500
ParagraphLimit == 20

\* index of the first character at or after i that is no whitespace,
\* Len(s) + 1 if there is none: where a greedy \s* that starts at i ends
SkipSpace(s, i) ==
    LET stop == {j \in i..Len(s) : ~IsSpace(CharAt(s, j))}
    IN  IF stop = {} THEN Len(s) + 1 ELSE SetMin(stop)

\* the same for \d*
SkipDigits(s, i) ==
    LET stop == {j \in i..Len(s) : ~IsDigit(CharAt(s, j))}
    IN  IF stop = {} THEN Len(s) + 1 ELSE SetMin(stop)

\* the same for [A-Z\s]*
SkipUpperOrSpace(s, i) ==
    LET stop == {j \in i..Len(s) : ~(IsUpper(CharAt(s, j)) \/ IsSpace(CharAt(s, j)))}
    IN  IF stop = {} THEN Len(s) + 1 ELSE SetMin(stop)

\* the same for \w*
SkipWord(s, i) ==
    LET stop == {j \in i..Len(s) : ~IsWord(CharAt(s, j))}
    IN  IF stop = {} THEN Len(s) + 1 ELSE SetMin(stop)

\* `\s*\n` from index i: the greedy \s* gives back characters until a
\* newline follows, so the match ends after the last newline of the
\* whitespace that starts at i; 0 if that whitespace holds no newline
SpaceThenNewlineEnd(s, i) ==
    LET nl == {j \in i..(SkipSpace(s, i) - 1) : CharAt(s, j) = "\n"}
    IN  IF nl = {} THEN 0 ELSE SetMax(nl) + 1

\* r'\n\s*\d+\.\s+' matched at index i: the index after the match, 0 if
\* there is no match at i
NumberedEnd(s, i) ==
    LET a == SkipSpace(s, i + 1)
        b == SkipDigits(s, a)
        c == SkipSpace(s, b + 1)
    IN  IF b > a /\ CharAt(s, b) = "." /\ c > b + 1 THEN c ELSE 0

\* r'\n\s*\([a-z]\)\s+'
LetteredEnd(s, i) ==
    LET a == SkipSpace(s, i + 1)
        c == SkipSpace(s, a + 3)
    IN  IF /\ CharAt(s, a) = "("
           /\ IsLower(CharAt(s, a + 1))
           /\ CharAt(s, a + 2) = ")"
           /\ c > a + 3
        THEN c ELSE 0

\* r'\n\s*[A-Z][A-Z\s]+\s*:\s*\n'
HeaderEnd(s, i) ==
    LET a == SkipSpace(s, i + 1)
        b == SkipUpperOrSpace(s, a + 1)
    IN  IF IsUpper(CharAt(s, a)) /\ b > a + 1 /\ CharAt(s, b) = ":"
        THEN SpaceThenNewlineEnd(s, b + 1) ELSE 0

\* r'\n\s*ARTICLE\s+\w+\s*\n'
ArticleEnd(s, i) ==
    LET a == SkipSpace(s, i + 1)
        b == SkipSpace(s, a + 7)
        c == SkipWord(s, b)
    IN  IF OccursAt("ARTICLE", s, a) /\ b > a + 7 /\ c > b
        THEN SpaceThenNewlineEnd(s, c) ELSE 0

\* the list clause_patterns, in its order
clause_patterns == <<"numbered", "lettered", "header", "article">>

\* the pattern matched at index i of s (every pattern starts with \n)
PatternEnd(pattern, s, i) ==
    IF CharAt(s, i) # "\n" THEN 0
    ELSE IF pattern = "numbered" THEN NumberedEnd(s, i)
    ELSE IF pattern = "lettered" THEN LetteredEnd(s, i)
    ELSE IF pattern = "header" THEN HeaderEnd(s, i)
    ELSE ArticleEnd(s, i)

\* re.split(pattern, text) from index `from` on: the text between the
\* matches, found from left to right
RECURSIVE SplitFrom(_, _, _)
SplitFrom(pattern, s, from) ==
    LET found == {i \in from..Len(s) : PatternEnd(pattern, s, i) # 0}
    IN  IF found = {} THEN <<SubSeq(s, from, Len(s))>>
        ELSE LET i == SetMin(found)
             IN  <<SubSeq(s, from, i - 1)>>
                     \o SplitFrom(pattern, s, PatternEnd(pattern, s, i))

re_split(pattern, s) == SplitFrom(pattern, s, 1)

\* str.split(sep) from index `from` on
RECURSIVE StrSplitFrom(_, _, _)
StrSplitFrom(s, sep, from) ==
    LET found == {i \in from..Len(s) : OccursAt(sep, s, i)}
    IN  IF found = {} THEN <<SubSeq(s, from, Len(s))>>
        ELSE LET i == SetMin(found)
             IN  <<SubSeq(s, from, i - 1)>> \o StrSplitFrom(s, sep, i + Len(sep))

str_split(s, sep) == StrSplitFrom(s, sep, 1)

\* variant of SegmentClauses: the fragment before the first delimiter is
\* counted
RECURSIVE SegmentClausesCountingFragment(_, _)
SegmentClausesCountingFragment(segments, i) ==
    IF i + 1 > Len(segments) THEN << >>
    ELSE LET segment == segments[i + 1]
         IN  (IF Strip(segment) # ""
              THEN << [clause_id |-> i + 1,
                       title     |-> "Clause " \o ToString(i + 1),
                       text      |-> Prefix(Strip(segment), TextLimit),
                       full_text |-> Strip(segment)] >>
              ELSE << >>)
                 \o SegmentClausesCountingFragment(segments, i + 1)

\* the loop `for i, segment in enumerate(segments[1:], 1)`, from i on
RECURSIVE SegmentClauses(_, _)
SegmentClauses(segments, i) ==
    IF i + 1 > Len(segments) THEN << >>
    ELSE LET segment == segments[i + 1]
         IN  (IF Strip(segment) # ""
              THEN << [clause_id |-> i,
                       title     |-> "Clause " \o ToString(i),
                       text      |-> Prefix(Strip(segment), TextLimit),
                       full_text |-> Strip(segment)] >>
              ELSE << >>)
                 \o SegmentClauses(segments, i + 1)

\* variant of TryPatterns: three segments are enough
RECURSIVE TryPatternsThreeSegments(_, _)
TryPatternsThreeSegments(k, txt) ==
    IF k > Len(clause_patterns) THEN << >>
    ELSE LET segments == re_split(clause_patterns[k], txt)
         IN  IF Len(segments) >= MinSegments
             THEN SegmentClauses(segments, 1)
             ELSE TryPatternsThreeSegments(k + 1, txt)

\* the loop `for pattern in clause_patterns`, from pattern k on, with its
\* break
RECURSIVE TryPatterns(_, _)
TryPatterns(k, txt) ==
    IF k > Len(clause_patterns) THEN << >>
    ELSE LET segments == re_split(clause_patterns[k], txt)
         IN  IF Len(segments) > MinSegments
             THEN SegmentClauses(segments, 1)
             ELSE TryPatterns(k + 1, txt)

\* [p.strip() for p in text.split('\n\n') if p.strip()]
Paragraphs(txt) ==
    LET parts == str_split(txt, "\n\n")
        kept  == SelectSeq(parts, LAMBDA q : Strip(q) # "")
    IN  [i \in 1..Len(kept) |-> Strip(kept[i])]

\* variant of ParagraphClauses: every paragraph becomes a clause
ParagraphClausesUncapped(txt) ==
    LET paragraphs == Paragraphs(txt)
    IN  [i \in 1..Len(paragraphs) |->
            [clause_id |-> i,
             title     |-> "Paragraph " \o ToString(i),
             text      |-> Prefix(paragraphs[i], TextLimit),
             full_text |-> paragraphs[i]]]

\* the fallback of segment_clauses
ParagraphClauses(txt) ==
    LET paragraphs == Prefix(Paragraphs(txt), ParagraphLimit)
    IN  [i \in 1..Len(paragraphs) |->
            [clause_id |-> i,
             title     |-> "Paragraph " \o ToString(i),
             text      |-> Prefix(paragraphs[i], TextLimit),
             full_text |-> paragraphs[i]]]

segment_clauses(txt) ==
    LET found == TryPatterns(1, txt)
    IN  IF found = << >> THEN ParagraphClauses(txt) ELSE found

----------------------------------------------------------------------------
(* Inputs                                                                  *)

MaxBlocks == 2
MaxClauses == 3

\* fragments of clause text: wording of the high and the medium tier and
\* of the three clause-type rules
RiskBlocks == <<
    "unlimited liability",
    "Indemnify us ",
    "for all negligence",
    "confidentiality is indefinite",
    "without cause",
    "courts of Mumbai" >>

RECURSIVE Concatenations(_, _)
Concatenations(blocks, n) ==
    IF n = 0 THEN {""}
    ELSE LET shorter == Concatenations(blocks, n - 1)
         IN  shorter \cup {t \o blocks[b] : t \in shorter, b \in 1..Len(blocks)}

\* longer clause texts: four high-tier matches, six matches over the three
\* tiers, the low tier alone, wording spread over two lines, and six
\* high-tier matches followed by one of the medium tier
RiskScenarios == {
    "Unlimited liability. Sole discretion to terminate. Assign without consent. Jurisdiction of a foreign country or of Mumbai.",
    "unlimited liability, penalty of 5% per month, automatic renewal without notice, non-compete for 3 years, warranty as is, severability",
    "entire agreement; notice in writing",
    "The Supplier shall indemnify the Buyer",
    "Indemnify us\nfor all negligence",
    "Indemnify us for any loss\nand all negligence",
    "terminate without\ncause",
    "unlimited liability\ncourts of Delhi",
    "Unlimited liability: indemnify us for all negligence, penalty of 5% per month, sole discretion to terminate, automatic renewal without notice, jurisdiction of a foreign country, confidentiality is indefinite" }

RiskTexts == Concatenations(RiskBlocks, MaxBlocks) \cup RiskScenarios

ClauseTypes == {"Indemnity", "Termination", "Jurisdiction", "Liability"}

\* the (risk_score, risk_level) pairs analyze_clause_risk returns
AnalysisInputs ==
    {[risk_score |-> sc, risk_level |-> score_to_level(sc, 1)] : sc \in (0 - 1)..MaxScore}

RECURSIVE SeqsUpTo(_, _)
SeqsUpTo(S, n) ==
    IF n = 0 THEN {<< >>}
    ELSE LET shorter == SeqsUpTo(S, n - 1)
         IN  shorter \cup {Append(q, x) : q \in shorter, x \in S}

MaxSegBlocks == 3
MaxNumbered == 6
MaxParagraphTexts == 22

\* fragments of contract text: a clause behind each of the four delimiters,
\* plain text, a blank line, a blank, and a numbered marker without text
SegBlocks == <<
    "\n1. a",
    "\n(b) c",
    "\nAB:\nd",
    "\nARTICLE I\ne",
    "f",
    "\n\n",
    " ",
    "\n2. " >>

\* "1. c1\n2. c2\n ... k. ck"
RECURSIVE NumberedLines(_)
NumberedLines(k) ==
    IF k = 0 THEN ""
    ELSE (IF k = 1 THEN "" ELSE NumberedLines(k - 1) \o "\n")
             \o ToString(k) \o ". c" \o ToString(k)

\* k numbered clauses; lead: a line break stands before the first
NumberedText(k, lead) == (IF lead THEN "\n" ELSE "") \o NumberedLines(k)

\* "p1\n\np2\n\n ... pk"
RECURSIVE ParagraphsText(_)
ParagraphsText(k) ==
    IF k = 0 THEN ""
    ELSE (IF k = 1 THEN "" ELSE ParagraphsText(k - 1) \o "\n\n")
             \o "p" \o ToString(k)

RECURSIVE Repeat(_, _)
Repeat(s, n) == IF n = 0 THEN "" ELSE s \o Repeat(s, n - 1)

\* contracts with two kinds of delimiters, with too few delimiters, on one
\* line, and with a clause longer than TextLimit
SegScenarios == {
    "Contract\n1. one\n2. two\n3. three\n(a) first\n(b) second\n(c) third",
    "Contract\n1. one\n2. two\n(a) first\n(b) second\n(c) third",
    "\nPARTIES:\nA and B\nTERM :\n\none year\nGOVERNING LAW:\nIndia\nARTICLE I\nx\nARTICLE II\ny\nARTICLE III\nz",
    "\nARTICLE I\nx\nARTICLE II\ny\nARTICLE III\nz",
    "1. c1 2. c2 3. c3 4. c4 5. c5",
    "\n1. " \o Repeat("long text ", 51) \o "\n2. b\n3. c",
    "Contract\n1. one\n2. two",
    "no marker and no blank line\nat all" }

SegTexts ==
    Concatenations(SegBlocks, MaxSegBlocks)
        \cup SegScenarios
        \cup {NumberedText(k, lead) : k \in 0..MaxNumbered, lead \in BOOLEAN}
        \cup {ParagraphsText(k) : k \in 0..MaxParagraphTexts}

None == "none"

\* the variables of the components that a run does not use
MultilingualUnused ==
    /\ profile = None
    /\ normalized = None
    /\ found_terms = None
    /\ classified = None

AnalyzerUnused ==
    /\ tables = None
    /\ calls = << >>

AppUnused ==
    /\ contract_text = ""
    /\ text_input = ""
    /\ analysis_results = << >>
    /\ detailed_report = << >>
    /\ llm_handler = None
    /\ clock = 0
    /\ history = << >>

----------------------------------------------------------------------------
(* The risk engine: one call of analyze_clause_risk                        *)

RiskInit ==
    /\ pc = "input"
    /\ clause_text \in RiskTexts
    /\ clause_type \in ClauseTypes
    /\ analysis = None
    /\ clause_analyses = << >>
    /\ composite = None
    /\ text = ""
    /\ clauses = << >>
    /\ MultilingualUnused
    /\ AppUnused
    /\ tables = RiskAnalyzer
    /\ calls = << >>

AnalyzeClauseRisk ==
    /\ pc = "input"
    /\ analysis' = analyze_clause_risk(tables, clause_text, clause_type)
    /\ pc' = "analyzed"
    /\ UNCHANGED <<clause_text, clause_type, clause_analyses, composite, text, clauses,
                 multilingual_vars, analyzer_vars, app_vars>>

RiskNext == AnalyzeClauseRisk

RiskSpec == RiskInit /\ [][RiskNext]_vars

(* The aggregator: one call of calculate_composite_risk                    *)

CompositeInit ==
    /\ pc = "input"
    /\ clause_analyses \in SeqsUpTo(AnalysisInputs, MaxClauses)
    /\ composite = None
    /\ clause_text = ""
    /\ clause_type = "General"
    /\ analysis = None
    /\ text = ""
    /\ clauses = << >>
    /\ MultilingualUnused
    /\ AnalyzerUnused
    /\ AppUnused

CalculateCompositeRisk ==
    /\ pc = "input"
    /\ composite' = calculate_composite_risk(clause_analyses)
    /\ pc' = "aggregated"
    /\ UNCHANGED <<clause_text, clause_type, analysis, clause_analyses, text, clauses,
                 multilingual_vars, analyzer_vars, app_vars>>

CompositeNext == CalculateCompositeRisk

CompositeSpec == CompositeInit /\ [][CompositeNext]_vars

----------------------------------------------------------------------------
(* Properties of the risk engine (RiskSpec)                                *)

Analyzed == pc = "analyzed"

\* numbers of matching patterns of a tier
MatchCount(tier) ==
    LET s == Fold(clause_text)
    IN  Cardinality({k \in 1..Len(risk_patterns[tier]) :
                        Matches(risk_patterns[tier][k].pattern, s)})

RawScore ==
    3 * MatchCount("high_risk") + 2 * MatchCount("medium_risk")
        + 1 * MatchCount("low_risk")
        + get_clause_type_risks(clause_type, clause_text).additional_risk

\* a occurs in s and b occurs after it on the same line
OccurOnOneLine(s, a, b) ==
    \E i \in 1..Len(s) :
        /\ OccursAt(a, s, i)
        /\ \E j \in (i + Len(a))..Len(s) :
               /\ OccursAt(b, s, j)
               /\ \A m \in i..j : CharAt(s, m) # "\n"

NamesCity(s) ==
    Contains(s, "delhi") \/ Contains(s, "mumbai") \/ Contains(s, "bangalore")

\* C1: for every clause text and clause type the returned risk_score
\* satisfies 0 <= risk_score <= 10.
C1_ScoreWithinZeroAndTen ==
    Analyzed => (0 <= analysis.risk_score /\ analysis.risk_score <= 10)

\* C2: in every result, risk_level is determined by the returned risk_score
\* alone: High iff score >= 7, Medium iff 4 <= score < 7, Low iff score < 4.
C2_LevelFollowsScore ==
    Analyzed =>
        /\ analysis.risk_level = "High" <=> analysis.risk_score >= 7
        /\ analysis.risk_level = "Medium" <=>
               (4 <= analysis.risk_score /\ analysis.risk_score < 7)
        /\ analysis.risk_level = "Low" <=> analysis.risk_score < 4

C2_Witness ==
    /\ Analyzed
    /\ analysis.risk_score = 7
    /\ analysis.risk_level = "High"

\* C3: the score is cumulative and clamped once at the end:
\* risk_score = min(10, 3*H + 2*M + 1*L + adj); "unlimited liability" with
\* type "Liability" gives exactly 3 and level "Low".
C3_CumulativeThenClamped ==
    Analyzed =>
        /\ analysis.risk_score = Min(10, RawScore)
        /\ (clause_text = "unlimited liability" /\ clause_type = "Liability")
               => (analysis.risk_score = 3 /\ analysis.risk_level = "Low")

C3_Witness ==
    /\ Analyzed
    /\ MatchCount("high_risk") >= 2
    /\ RawScore > 10
    /\ analysis.risk_score = 10

\* C4: the clause-type adjustment is +2 for every Indemnity clause (and one
\* High issue when "indemnify...all" occurs), +3 and one High issue for a
\* Termination clause with "without cause", -1 and one Low issue for a
\* Jurisdiction clause naming a recognized Indian city (so appending "Mumbai"
\* to a Jurisdiction text without a city lowers additional_risk by exactly
\* 1), and 0 with no issue in every other case; the issue follows the issues
\* of the tier patterns in the result.
C4_ClauseTypeAdjustment ==
    Analyzed =>
        LET risks  == get_clause_type_risks(clause_type, clause_text)
            s      == Lower(clause_text)
            levels == [k \in 1..Len(risks.issues) |-> risks.issues[k].risk_level]
            tiers  == MatchCount("high_risk") + MatchCount("medium_risk")
                          + MatchCount("low_risk")
        IN  /\ clause_type = "Indemnity" =>
                /\ risks.additional_risk = 2
                /\ levels = IF OccurOnOneLine(s, "indemnify", "all")
                            THEN <<"High">> ELSE << >>
            /\ clause_type = "Termination" =>
                IF Contains(s, "without cause")
                THEN risks.additional_risk = 3 /\ levels = <<"High">>
                ELSE risks.additional_risk = 0 /\ levels = << >>
            /\ clause_type = "Jurisdiction" =>
                IF NamesCity(s)
                THEN risks.additional_risk = 0 - 1 /\ levels = <<"Low">>
                ELSE /\ risks.additional_risk = 0 /\ levels = << >>
                     /\ get_clause_type_risks(clause_type,
                            clause_text \o " Mumbai").additional_risk
                          = risks.additional_risk - 1
            /\ clause_type \notin {"Indemnity", "Termination", "Jurisdiction"} =>
                risks.additional_risk = 0 /\ levels = << >>
            /\ tiers + Len(risks.issues) <= MaxIssues =>
                /\ Len(analysis.issues) = tiers + Len(risks.issues)
                /\ \A k \in 1..Len(risks.issues) :
                       analysis.issues[tiers + k] = risks.issues[k]

C4_Witness ==
    /\ Analyzed
    /\ clause_type = "Jurisdiction"
    /\ NamesCity(Lower(clause_text))
    /\ Len(analysis.issues) >= 1
    /\ analysis.issues[Len(analysis.issues)].issue
           = "Local Indian jurisdiction is preferable for SMEs"

----------------------------------------------------------------------------
(* Properties of the aggregator (CompositeSpec)                            *)

Aggregated == pc = "aggregated"

ScoreSum == SumScores(clause_analyses, 1)

Scores == [k \in 1..Len(clause_analyses) |-> clause_analyses[k].risk_score]

CountLevel(level) ==
    Cardinality({k \in 1..Len(clause_analyses) : clause_analyses[k].risk_level = level})

\* C5: for a non-empty sequence with n clauses and score sum S, overall_risk
\* is bucketed from the doubled average (High iff 2S >= 7n, Medium iff
\* 4n <= 2S < 7n, Low otherwise) and score is S/n rounded to one decimal;
\* scores [8, 2, 2] give score 4.0 and overall_risk "High".
C5_OverallFromDoubledAverage ==
    (Aggregated /\ Len(clause_analyses) > 0) =>
        LET n == Len(clause_analyses)
            S == ScoreSum
            d == n * composite.score - 10 * S
        IN  /\ composite.overall_risk = "High" <=> 2 * S >= 7 * n
            /\ composite.overall_risk = "Medium" <=> (4 * n <= 2 * S /\ 2 * S < 7 * n)
            /\ composite.overall_risk = "Low" <=> 2 * S < 4 * n
            /\ 2 * d <= n /\ 0 - n <= 2 * d
            /\ Scores = <<8, 2, 2>> =>
                   (composite.score = 40 /\ composite.overall_risk = "High")

C5_Witness ==
    /\ Aggregated
    /\ Scores = <<8, 2, 2>>
    /\ composite.score = 40
    /\ composite.overall_risk = "High"

\* C6: on an empty sequence calculate_composite_risk returns overall_risk
\* "Low" and score 0 and carries no other field.
C6_EmptyInput ==
    (Aggregated /\ Len(clause_analyses) = 0) =>
        /\ DOMAIN composite = {"overall_risk", "score"}
        /\ composite.overall_risk = "Low"
        /\ composite.score = 0

C6_Witness ==
    /\ Aggregated
    /\ clause_analyses = << >>
    /\ composite.overall_risk = "Low"

\* C7: for a non-empty sequence, distribution high + medium + low equals
\* total_clauses and the number of analyses; the High and Medium counts are
\* the numbers of analyses with that risk_level.
C7_DistributionSumsToTotal ==
    (Aggregated /\ Len(clause_analyses) > 0) =>
        /\ composite.risk_distribution.high + composite.risk_distribution.medium
               + composite.risk_distribution.low = composite.total_clauses
        /\ composite.total_clauses = Len(clause_analyses)
        /\ composite.high_risk_count = CountLevel("High")
        /\ composite.medium_risk_count = CountLevel("Medium")
        /\ composite.risk_distribution.high = CountLevel("High")
        /\ composite.risk_distribution.medium = CountLevel("Medium")

C7_Witness ==
    /\ Aggregated
    /\ Len(clause_analyses) = 3
    /\ composite.total_clauses = 3
    /\ composite.risk_distribution.high = 1
    /\ composite.risk_distribution.medium = 1
    /\ composite.risk_distribution.low = 1

----------------------------------------------------------------------------
(* The segmenter: one call of segment_clauses                              *)

SegmentInit ==
    /\ pc = "input"
    /\ text \in SegTexts
    /\ clauses = << >>
    /\ clause_text = ""
    /\ clause_type = "General"
    /\ analysis = None
    /\ clause_analyses = << >>
    /\ composite = None
    /\ MultilingualUnused
    /\ AnalyzerUnused
    /\ AppUnused

SegmentClausesCall ==
    /\ pc = "input"
    /\ clauses' = segment_clauses(text)
    /\ pc' = "segmented"
    /\ UNCHANGED <<text, clause_text, clause_type, analysis, clause_analyses, composite,
                 multilingual_vars, analyzer_vars, app_vars>>

SegmentNext == SegmentClausesCall

SegmentSpec == SegmentInit /\ [][SegmentNext]_vars

(* Properties of the segmenter (SegmentSpec)                               *)

Segmented == pc = "segmented"

\* the four delimiters in the order of the claim
DelimiterOrder == <<"numbered", "lettered", "header", "article">>

\* splitting on delimiter k yields more than 3 segments
Accepted(k) == Len(re_split(DelimiterOrder[k], text)) > 3

AcceptedSet == {k \in 1..Len(DelimiterOrder) : Accepted(k)}

\* C8: a text of 5 numbered clauses yields exactly 5 Clause records, one per
\* numbered clause, with ids 1..5 in text order; the first numbered clause
\* is not lost when nothing precedes it.
C8_FiveNumberedClauses ==
    (Segmented /\ text \in {NumberedText(5, FALSE), NumberedText(5, TRUE)}) =>
        /\ Len(clauses) = 5
        /\ \A i \in 1..Len(clauses) :
               /\ clauses[i].clause_id = i
               /\ Contains(clauses[i].full_text, "c" \o ToString(i))

\* C9: the delimiters are tried in the order numbered, lettered, header,
\* article; one is accepted only if it yields more than 3 segments; the
\* clauses come from the first accepted delimiter only, and then no later
\* delimiter and no paragraph fallback contributes.
C9_FirstAcceptedDelimiterOnly ==
    Segmented =>
        IF AcceptedSet = {}
        THEN \A j \in 1..Len(clauses) :
                 clauses[j].title = "Paragraph " \o ToString(clauses[j].clause_id)
        ELSE LET segs == re_split(DelimiterOrder[SetMin(AcceptedSet)], text)
                 kept == {i \in 1..(Len(segs) - 1) : Strip(segs[i + 1]) # ""}
             IN  /\ Len(clauses) = Cardinality(kept)
                 /\ Len(clauses) > 0
                 /\ \A j \in 1..Len(clauses) :
                        /\ clauses[j].clause_id \in kept
                        /\ clauses[j].full_text = Strip(segs[clauses[j].clause_id + 1])
                        /\ clauses[j].title = "Clause " \o ToString(clauses[j].clause_id)
                        /\ j > 1 => clauses[j - 1].clause_id < clauses[j].clause_id

C9_Witness ==
    /\ Segmented
    /\ Accepted(1)
    /\ Accepted(2)
    /\ Len(clauses) = 3
    /\ clauses[1].title = "Clause 1"
    /\ clauses[1].full_text = "one"

\* C10: when no delimiter yields more than 3 segments, the result is one
\* Clause per non-empty blank-line-delimited paragraph, in text order,
\* titled "Paragraph N", for at most the first 20 such paragraphs; a text
\* with no blank line and no structural marker yields zero or one clause.
C10_ParagraphFallback ==
    (Segmented /\ AcceptedSet = {}) =>
        LET paragraphs == Paragraphs(text)
        IN  /\ Len(clauses) = Min(20, Len(paragraphs))
            /\ Len(clauses) <= 20
            /\ \A i \in 1..Len(clauses) :
                   /\ clauses[i].clause_id = i
                   /\ clauses[i].title = "Paragraph " \o ToString(i)
                   /\ clauses[i].full_text = paragraphs[i]
            /\ (/\ ~Contains(text, "\n\n")
                /\ \A k \in 1..Len(DelimiterOrder) :
                       Len(re_split(DelimiterOrder[k], text)) = 1)
                   => Len(clauses) <= 1

C10_Witness ==
    /\ Segmented
    /\ AcceptedSet = {}
    /\ Len(Paragraphs(text)) > 20
    /\ Len(clauses) = 20
    /\ clauses[20].title = "Paragraph 20"
    /\ clauses[20].full_text = "p20"

----------------------------------------------------------------------------
(* Texts with characters outside ASCII                                     *)
(*                                                                         *)
(* The texts of the language detector, the normalizer and the classifiers  *)
(* hold Devanagari characters.  Such a text is a tuple of characters: an   *)
(* ASCII character is the string of length 1, any other character is named *)
(* by its code point ("u0938" is U+0938).  Indexes are 1-based.            *)

Hex == <<"0", "1", "2", "3", "4", "5", "6", "7", "8", "9",
         "A", "B", "C", "D", "E", "F">>

\* the characters U+0900 + a .. U+0900 + b
DevanagariRange(a, b) ==
    {"u09" \o Hex[(n \div 16) + 1] \o Hex[(n % 16) + 1] : n \in a..b}

\* [\u0900-\u097F], the class of LanguageDetector.hindi_pattern
Devanagari == DevanagariRange(0, 127)

\* the Devanagari characters that \w matches: letters and digits; the vowel
\* signs, the virama, the nukta, the anusvara and the danda are not among
\* them (the re module takes \w to be str.isalnum() or "_")
DevanagariWord ==
    DevanagariRange(4, 57) \cup DevanagariRange(61, 61) \cup DevanagariRange(80, 80)
        \cup DevanagariRange(88, 97) \cup DevanagariRange(102, 111)
        \cup DevanagariRange(113, 127)

\* self.hindi_numerals: the glyphs U+0966..U+096F and their ASCII digits
hindi_numerals ==
    [c \in DevanagariRange(102, 111) |->
        CHOOSE d \in {"0", "1", "2", "3", "4", "5", "6", "7", "8", "9"} :
            \E n \in 0..9 : /\ c \in DevanagariRange(102 + n, 102 + n)
                            /\ d = Hex[n + 1]]

\* the rupee sign U+20B9
RupeeSign == "u20B9"

\* a string as a tuple of characters
Chars(s) == IF s = "" THEN << >> ELSE [i \in 1..Len(s) |-> SubSeq(s, i, i)]

\* the character of u at index i, "" outside of u
UAt(u, i) == IF 1 <= i /\ i <= Len(u) THEN u[i] ELSE ""

\* \w, \d and \s of the re module on str patterns
IsWordChar(c) == IsWord(c) \/ c \in DevanagariWord
IsDigitChar(c) == IsDigit(c) \/ c \in DOMAIN hindi_numerals
IsSpaceChar(c) == IsSpace(c)

\* str.lower(): only the ASCII capitals of these texts have a lower case
ULower(u) == [i \in 1..Len(u) |-> IF IsUpper(u[i]) THEN UpperToLower[u[i]] ELSE u[i]]

\* key occurs in u at index i
UOccursAt(key, u, i) ==
    /\ i >= 1
    /\ i + Len(key) - 1 <= Len(u)
    /\ SubSeq(u, i, i + Len(key) - 1) = key

\* re.search of a literal: key occurs somewhere in u
UContains(u, key) == \E i \in 1..(Len(u) + 1) : UOccursAt(key, u, i)

\* \b at index i: between the characters i - 1 and i exactly one is a word
\* character (the ends of the text count as non-word)
WordBoundary(u, i) == IsWordChar(UAt(u, i - 1)) # IsWordChar(UAt(u, i))


----------------------------------------------------------------------------
(* HindiToEnglishNormalizer.__init__                                       *)

\* self.legal_terms_dict in the order of the dict (a key written twice keeps
\* its first place)
legal_terms_dict == <<
    [hindi |-> <<"u0938", "u092E", "u091D", "u094C", "u0924", "u093E">>,
     english |-> "agreement"],
    [hindi |-> <<"u0905", "u0928", "u0941", "u092C", "u0902", "u0927">>,
     english |-> "contract"],
    [hindi |-> <<"u0928", "u093F", "u092F", "u092E">>,
     english |-> "terms"],
    [hindi |-> <<"u0936", "u0930", "u094D", "u0924", "u0947", "u0902">>,
     english |-> "conditions"],
    [hindi |-> <<"u092A", "u0915", "u094D", "u0937">>,
     english |-> "party"],
    [hindi |-> <<"u092A", "u0915", "u094D", "u0937", "u0915", "u093E", "u0930">>,
     english |-> "party"],
    [hindi |-> <<"u0915", "u0902", "u092A", "u0928", "u0940">>,
     english |-> "company"],
    [hindi |-> <<"u092B", "u0930", "u094D", "u092E">>,
     english |-> "firm"],
    [hindi |-> <<"u0938", "u0902", "u0938", "u094D", "u0925", "u093E">>,
     english |-> "organization"],
    [hindi |-> <<"u0930", "u094B", "u091C", "u0917", "u093E", "u0930", "u0940">>,
     english |-> "employment"],
    [hindi |-> <<"u0915", "u0930", "u094D", "u092E", "u091A", "u093E", "u0930", "u0940">>,
     english |-> "employee"],
    [hindi |-> <<"u0935", "u094D", "u092F", "u0915", "u094D", "u0924", "u093F">>,
     english |-> "person"],
    [hindi |-> <<"u0928", "u093F", "u0926", "u0947", "u0936", "u0915">>,
     english |-> "director"],
    [hindi |-> <<"u092A", "u094D", "u0930", "u092C", "u0902", "u0927", "u0915">>,
     english |-> "manager"],
    [hindi |-> <<"u092E", "u093E", "u0932", "u093F", "u0915">>,
     english |-> "owner"],
    [hindi |-> <<"u0935", "u0930", "u093F", "u0937", "u094D", "u0920">>,
     english |-> "senior"],
    [hindi |-> <<"u0921", "u0947", "u0935", "u0932", "u092A", "u0930">>,
     english |-> "developer"],
    [hindi |-> <<"u092D", "u0941", "u0917", "u0924", "u093E", "u0928">>,
     english |-> "payment"],
    [hindi |-> <<"u0930", "u093E", "u0936", "u093F">>,
     english |-> "amount"],
    [hindi |-> <<"u0926", "u093E", "u092F", "u093F", "u0924", "u094D", "u0935">>,
     english |-> "liability"],
    [hindi |-> <<"u091C", "u093F", "u092E", "u094D", "u092E", "u0947", "u0926", "u093E", "u0930", "u0940">>,
     english |-> "responsibility"],
    [hindi |-> <<"u092C", "u094D", "u092F", "u093E", "u091C">>,
     english |-> "interest"],
    [hindi |-> <<"u091C", "u0941", "u0930", "u094D", "u092E", "u093E", "u0928", "u093E">>,
     english |-> "penalty"],
    [hindi |-> <<"u092E", "u0941", "u0906", "u0935", "u091C", "u093E">>,
     english |-> "compensation"],
    [hindi |-> <<"u0939", "u0930", "u094D", "u091C", "u093E", "u0928", "u093E">>,
     english |-> "damages"],
    [hindi |-> <<"u0935", "u0947", "u0924", "u0928">>,
     english |-> "salary"],
    [hindi |-> <<"u092E", "u093E", "u0938", "u093F", "u0915">>,
     english |-> "monthly"],
    [hindi |-> <<"u0905", "u0927", "u093F", "u0915", "u093E", "u0930">>,
     english |-> "right"],
    [hindi |-> <<"u0915", "u0930", "u094D", "u0924", "u0935", "u094D", "u092F">>,
     english |-> "duty"],
    [hindi |-> <<"u092C", "u093E", "u0927", "u094D", "u092F">>,
     english |-> "obliged"],
    [hindi |-> <<"u0936", "u0930", "u094D", "u0924">>,
     english |-> "condition"],
    [hindi |-> <<"u092A", "u094D", "u0930", "u093E", "u0935", "u0927", "u093E", "u0928">>,
     english |-> "provision"],
    [hindi |-> <<"u0927", "u093E", "u0930", "u093E">>,
     english |-> "clause"],
    [hindi |-> <<"u0905", "u0928", "u0941", "u091A", "u094D", "u091B", "u0947", "u0926">>,
     english |-> "section"],
    [hindi |-> <<"u0938", "u092E", "u093E", "u092A", "u094D", "u0924", "u093F">>,
     english |-> "termination"],
    [hindi |-> <<"u0930", "u0926", "u094D", "u0926">>,
     english |-> "cancel"],
    [hindi |-> <<"u0938", "u092E", "u093E", "u092A", "u094D", "u0924">>,
     english |-> "terminate"],
    [hindi |-> <<"u0935", "u093F", "u0938", "u094D", "u0924", "u093E", "u0930">>,
     english |-> "extension"],
    [hindi |-> <<"u0928", "u0935", "u0940", "u0928", "u0940", "u0915", "u0930", "u0923">>,
     english |-> "renewal"],
    [hindi |-> <<"u0915", "u093E", "u0930", "u094D", "u092F">>,
     english |-> "work"],
    [hindi |-> <<"u0915", "u0930", "u0947", "u0917", "u093E">>,
     english |-> "shall"],
    [hindi |-> <<"u0905", "u0935", "u0927", "u093F">>,
     english |-> "period"],
    [hindi |-> <<"u0938", "u092E", "u092F">>,
     english |-> "time"],
    [hindi |-> <<"u092E", "u093F", "u092F", "u093E", "u0926">>,
     english |-> "term"],
    [hindi |-> <<"u0928", "u094B", "u091F", "u093F", "u0938">>,
     english |-> "notice"],
    [hindi |-> <<"u0938", "u0942", "u091A", "u0928", "u093E">>,
     english |-> "notification"],
    [hindi |-> <<"u0905", "u0928", "u093F", "u0936", "u094D", "u091A", "u093F", "u0924">>,
     english |-> "indefinite"],
    [hindi |-> <<"u0915", "u093E", "u0928", "u0942", "u0928">>,
     english |-> "law"],
    [hindi |-> <<"u0928", "u094D", "u092F", "u093E", "u092F", "u093E", "u0932", "u092F">>,
     english |-> "court"],
    [hindi |-> <<"u0928", "u094D", "u092F", "u093E", "u092F", "u093E", "u0927", "u0940", "u0936">>,
     english |-> "judge"],
    [hindi |-> <<"u092B", "u0948", "u0938", "u0932", "u093E">>,
     english |-> "judgment"],
    [hindi |-> <<"u0906", "u0926", "u0947", "u0936">>,
     english |-> "order"],
    [hindi |-> <<"u0935", "u093F", "u0927", "u093F">>,
     english |-> "act"],
    [hindi |-> <<"u0938", "u0902", "u092A", "u0924", "u094D", "u0924", "u093F">>,
     english |-> "property"],
    [hindi |-> <<"u092C", "u094C", "u0926", "u094D", "u0927", "u093F", "u0915", " ", "u0938", "u0902", "u092A", "u0926", "u093E">>,
     english |-> "intellectual property"],
    [hindi |-> <<"u0917", "u094B", "u092A", "u0928", "u0940", "u092F">>,
     english |-> "confidential"],
    [hindi |-> <<"u0917", "u0941", "u092A", "u094D", "u0924">>,
     english |-> "secret"],
    [hindi |-> <<"u092A", "u094D", "u0930", "u0915", "u091F", "u0940", "u0915", "u0930", "u0923">>,
     english |-> "disclosure"],
    [hindi |-> <<"u0917", "u094B", "u092A", "u0928", "u0940", "u092F", "u0924", "u093E">>,
     english |-> "confidentiality"],
    [hindi |-> <<"u091C", "u093E", "u0928", "u0915", "u093E", "u0930", "u0940">>,
     english |-> "information"],
    [hindi |-> <<"u0939", "u094B", "u0917", "u093E">>,
     english |-> "shall be"],
    [hindi |-> <<"u0939", "u094B", "u0917", "u0940">>,
     english |-> "shall be"],
    [hindi |-> <<"u0915", "u0930", "u0947", "u0917", "u0940">>,
     english |-> "shall"],
    [hindi |-> <<"u0928", "u0939", "u0940", "u0902", " ", "u0915", "u0930", "u0947", "u0917", "u093E">>,
     english |-> "shall not"],
    [hindi |-> <<"u0928", "u0939", "u0940", "u0902", " ", "u0915", "u0930", "u0947", "u0917", "u0940">>,
     english |-> "shall not"],
    [hindi |-> <<"u0915", "u0930", "u0928", "u093E", " ", "u0939", "u094B", "u0917", "u093E">>,
     english |-> "must"],
    [hindi |-> <<"u0915", "u0930", "u0928", "u093E", " ", "u091A", "u093E", "u0939", "u093F", "u090F">>,
     english |-> "should"],
    [hindi |-> <<"u0930", "u0916", "u0947", "u0917", "u093E">>,
     english |-> "shall maintain"],
    [hindi |-> <<"u092C", "u0928", "u093E", "u090F", " ", "u0930", "u0916", "u0947", "u0917", "u093E">>,
     english |-> "shall maintain"],
    [hindi |-> <<"u0939", "u095B", "u093E", "u0930">>,
     english |-> "thousand"],
    [hindi |-> <<"u0932", "u093E", "u0916">>,
     english |-> "lakh"],
    [hindi |-> <<"u0915", "u0930", "u094B", "u095C">>,
     english |-> "crore"],
    [hindi |-> <<"u092A", "u094D", "u0930", "u0924", "u093F", "u0936", "u0924">>,
     english |-> "percent"],
    [hindi |-> <<"u092B", "u0940", "u0938", "u0926", "u0940">>,
     english |-> "percent"],
    [hindi |-> <<"u092A", "u094D", "u0930", "u0924", "u093F", "u092E", "u093E", "u0939">>,
     english |-> "per month"],
    [hindi |-> <<"u090F", "u0915", "u0924", "u0930", "u092B", "u093E">>,
     english |-> "unilateral"],
    [hindi |-> <<"u0935", "u093F", "u0935", "u0947", "u0915">>,
     english |-> "discretion"],
    [hindi |-> <<"u0905", "u0938", "u0940", "u092E", "u093F", "u0924">>,
     english |-> "unlimited"],
    [hindi |-> <<"u0935", "u093F", "u0926", "u0947", "u0936", "u0940">>,
     english |-> "foreign"],
    [hindi |-> <<"u0938", "u094D", "u0935", "u091A", "u093E", "u0932", "u093F", "u0924">>,
     english |-> "automatic"]
>>

Rupaye == <<"u0930", "u0941", "u092A", "u092F", "u0947">>
Pratishat == <<"u092A", "u094D", "u0930", "u0924", "u093F", "u0936", "u0924">>
Feesadi == <<"u092B", "u0940", "u0938", "u0926", "u0940">>

\* self.patterns in the order of the list.  A rule is the regular expression
\* and the replacement of one pair:
\*   date     (\d{1,2})[-/](\d{1,2})[-/](\d{2,4})        ->  \1/\2/\3
\*   literal  one of the words                            ->  the text
\*   amount   (\d+(?:,\d{3})*)\s*word                     ->  INR \1
\*   percent  (\d+(?:\.\d+)?)\s*word                      ->  \1%
patterns == <<
    [kind |-> "date"],
    [kind |-> "literal", words |-> <<Rupaye, <<RupeeSign>>>>, text |-> Chars("INR")],
    [kind |-> "amount", word |-> Rupaye],
    [kind |-> "percent", word |-> Pratishat],
    [kind |-> "percent", word |-> Feesadi]
>>

----------------------------------------------------------------------------
(* HindiToEnglishNormalizer.normalize_text                                 *)

\* the loop over self.hindi_numerals: str.replace of each glyph
ConvertNumerals(u) ==
    [i \in 1..Len(u) |-> IF u[i] \in DOMAIN hindi_numerals
                         THEN hindi_numerals[u[i]] ELSE u[i]]

\* the number of digits that stand in u from index i on
DigitRun(u, i) ==
    SetMax({n \in 0..(Len(u) + 1 - i) : \A j \in 0..(n - 1) : IsDigitChar(u[i + j])})

\* the index after the white space that stands in u from index i on
SkipSpaceChars(u, i) ==
    SetMin({j \in i..(Len(u) + 1) : ~IsSpaceChar(UAt(u, j))})

IsDateSeparator(c) == c \in {"-", "/"}

\* \d{1,2} followed by a separator: the length of the digit group at i, 0 if
\* there is none (the separator fixes the length, so nothing is left to
\* backtracking)
DayOrMonth(u, i) ==
    IF IsDigitChar(UAt(u, i)) /\ IsDigitChar(UAt(u, i + 1)) /\ IsDateSeparator(UAt(u, i + 2))
    THEN 2
    ELSE IF IsDigitChar(UAt(u, i)) /\ IsDateSeparator(UAt(u, i + 1)) THEN 1
    ELSE 0

\* the match of the date rule at index i: the three groups, or no match
DateAt(u, i) ==
    LET a == DayOrMonth(u, i)
        b == DayOrMonth(u, i + a + 1)
        y == i + a + 1 + b + 1
        c == Min(4, DigitRun(u, y))
    IN  IF a > 0 /\ b > 0 /\ c >= 2
        THEN [found |-> TRUE,
              groups |-> <<SubSeq(u, i, i + a - 1),
                           SubSeq(u, i + a + 1, i + a + b),
                           SubSeq(u, y, y + c - 1)>>,
              end |-> y + c]
        ELSE NoMatch

\* (?:,\d{3})* from index i on: the index after the last group
RECURSIVE ThousandsEnd(_, _)
ThousandsEnd(u, i) ==
    IF UAt(u, i) = "," /\ DigitRun(u, i + 1) >= 3
    THEN ThousandsEnd(u, i + 4)
    ELSE i

\* the match of an amount rule at index i.  The word starts with a letter,
\* so a shorter number or fewer groups never let the rest match.
AmountAt(word, u, i) ==
    LET d == DigitRun(u, i)
        e == ThousandsEnd(u, i + d)
        w == SkipSpaceChars(u, e)
    IN  IF d >= 1 /\ UOccursAt(word, u, w)
        THEN [found |-> TRUE, groups |-> <<SubSeq(u, i, e - 1)>>, end |-> w + Len(word)]
        ELSE NoMatch

\* the match of a percentage rule at index i
PercentAt(word, u, i) ==
    LET d == DigitRun(u, i)
        f == IF UAt(u, i + d) = "." THEN DigitRun(u, i + d + 1) ELSE 0
        e == IF f >= 1 THEN i + d + 1 + f ELSE i + d
        w == SkipSpaceChars(u, e)
    IN  IF d >= 1 /\ UOccursAt(word, u, w)
        THEN [found |-> TRUE, groups |-> <<SubSeq(u, i, e - 1)>>, end |-> w + Len(word)]
        ELSE NoMatch

\* the match of a literal rule at index i: the first word of the alternation
\* that stands there
LiteralAt(words, u, i) ==
    LET here == {k \in 1..Len(words) : UOccursAt(words[k], u, i)}
    IN  IF here = {} THEN NoMatch
        ELSE [found |-> TRUE, groups |-> << >>, end |-> i + Len(words[SetMin(here)])]

\* the match of \b term \b at index i (re.escape leaves the term a literal;
\* re.IGNORECASE changes nothing, Devanagari has no case)
TermAt(term, u, i) ==
    IF UOccursAt(term, u, i) /\ WordBoundary(u, i) /\ WordBoundary(u, i + Len(term))
    THEN [found |-> TRUE, groups |-> << >>, end |-> i + Len(term)]
    ELSE NoMatch

RuleAt(rule, u, i) ==
    CASE rule.kind = "date"    -> DateAt(u, i)
      [] rule.kind = "literal" -> LiteralAt(rule.words, u, i)
      [] rule.kind = "amount"  -> AmountAt(rule.word, u, i)
      [] rule.kind = "percent" -> PercentAt(rule.word, u, i)
      [] rule.kind = "term"    -> TermAt(rule.hindi, u, i)

DateReplacementSwapped(groups) ==
    groups[2] \o <<"/">> \o groups[1] \o <<"/">> \o groups[3]

\* r'\1/\2/\3'
DateReplacement(groups) ==
    groups[1] \o <<"/">> \o groups[2] \o <<"/">> \o groups[3]

\* the replacement of a rule, its group references expanded
Replacement(rule, groups) ==
    CASE rule.kind = "date"    -> DateReplacement(groups)
      [] rule.kind = "literal" -> rule.text
      [] rule.kind = "amount"  -> Chars("INR ") \o groups[1]
      [] rule.kind = "percent" -> groups[1] \o <<"%">>
      [] rule.kind = "term"    -> Chars(rule.english)

\* re.sub from index i on: the matches are taken from left to right, they do
\* not overlap and a replacement is not searched again
RECURSIVE SubFrom(_, _, _)
SubFrom(rule, u, i) ==
    IF i > Len(u) THEN << >>
    ELSE LET m == RuleAt(rule, u, i)
         IN  IF m.found
             THEN Replacement(rule, m.groups) \o SubFrom(rule, u, m.end)
             ELSE <<u[i]>> \o SubFrom(rule, u, i + 1)

re_sub(rule, u) ==
    IF \E i \in 1..Len(u) : RuleAt(rule, u, i).found THEN SubFrom(rule, u, 1) ELSE u

\* the loop `for pattern, replacement in self.patterns`, from rule k on
RECURSIVE ApplyPatterns(_, _)
ApplyPatterns(k, u) ==
    IF k > Len(patterns) THEN u
    ELSE ApplyPatterns(k + 1, re_sub(patterns[k], u))

TermRule(entry) == [kind |-> "term", hindi |-> entry.hindi, english |-> entry.english]

\* the loop `for hindi_term, english_term in self.legal_terms_dict.items()`
\* over the entries lo..hi, in their order (the range is halved so that the
\* evaluation does not nest once per entry; nothing is left to replace in an
\* empty text)
RECURSIVE ApplyTermsRange(_, _, _)
ApplyTermsRange(lo, hi, u) ==
    IF u = << >> \/ lo > hi THEN u
    ELSE IF lo = hi THEN re_sub(TermRule(legal_terms_dict[lo]), u)
    ELSE LET mid == (lo + hi) \div 2
         IN  ApplyTermsRange(mid + 1, hi, ApplyTermsRange(lo, mid, u))

ApplyTerms(k, u) == ApplyTermsRange(k, Len(legal_terms_dict), u)

normalize_text_terms_first(txt) ==
    IF txt = << >> THEN txt
    ELSE ApplyPatterns(1, ApplyTerms(1, ConvertNumerals(txt)))

normalize_text(txt) ==
    IF txt = << >> THEN txt
    ELSE ApplyTerms(1, ApplyPatterns(1, ConvertNumerals(txt)))

\* translate_key_terms: the entries of the dictionary whose pattern
\* \b term \b is found in the text, in the order of the dictionary
translate_key_terms(txt) ==
    LET present(k) == \E i \in 1..Len(txt) : TermAt(legal_terms_dict[k].hindi, txt, i).found
        F[k \in 0..Len(legal_terms_dict)] ==
            IF k = 0 THEN << >>
            ELSE IF present(k) THEN Append(F[k - 1], legal_terms_dict[k]) ELSE F[k - 1]
    IN  F[Len(legal_terms_dict)]

----------------------------------------------------------------------------
(* LanguageDetector                                                        *)

\* self.hindi_keywords (two entries of the source file start with U+FFFD)
hindi_keywords == {
    <<"u0938", "u092E", "u091D", "u094C", "u0924", "u093E">>,
    <<"u0905", "u0928", "u0941", "u092C", "u0902", "u0927">>,
    <<"u0928", "u093F", "u092F", "u092E">>,
    <<"u0936", "u0930", "u094D", "u0924", "u0947", "u0902">>,
    <<"u092A", "u0915", "u094D", "u0937">>,
    <<"u0915", "u0902", "u092A", "u0928", "u0940">>,
    <<"u0915", "u0930", "u094D", "u092E", "u091A", "u093E", "u0930", "u0940">>,
    <<"u092D", "u0941", "u0917", "u0924", "u093E", "u0928">>,
    <<"u0926", "u093E", "u092F", "u093F", "u0924", "u094D", "u0935">>,
    <<"u0905", "u0927", "u093F", "u0915", "u093E", "u0930">>,
    <<"u0915", "u093E", "u0928", "u0942", "u0928">>,
    <<"u0928", "u094D", "u092F", "u093E", "u092F", "u093E", "u0932", "u092F">>,
    <<"u092E", "u0941", "u0906", "u0935", "u091C", "u093E">>,
    <<"u0938", "u092E", "u093E", "u092A", "u094D", "u0924", "u093F">>,
    <<"u0928", "u094B", "u091F", "u093F", "u0938">>,
    <<"u0905", "u0935", "u0927", "u093F">>,
    <<"u0930", "u093E", "u0936", "u093F">>,
    <<"u092C", "u094D", "u092F", "u093E", "u091C">>,
    <<"uFFFD", "u0902", "u0921">>,
    <<"uFFFD", "u094B", "u092A", "u0928", "u0940", "u092F">>
}

\* self.english_keywords
english_keywords == {
    Chars("agreement"),
    Chars("contract"),
    Chars("terms"),
    Chars("conditions"),
    Chars("party"),
    Chars("company"),
    Chars("employee"),
    Chars("payment"),
    Chars("liability"),
    Chars("right"),
    Chars("law"),
    Chars("court"),
    Chars("compensation"),
    Chars("termination"),
    Chars("notice"),
    Chars("period"),
    Chars("amount"),
    Chars("interest"),
    Chars("penalty"),
    Chars("confidential")
}

HindiThreshold == [num |-> 3, den |-> 10]
EnglishThreshold == [num |-> 7, den |-> 10]
MixedThreshold == [num |-> 1, den |-> 10]

\* ratio > threshold, where ratio = a / b if b > 0 else 0
Exceeds(a, b, threshold) == b > 0 /\ a * threshold.den > threshold.num * b

\* round(a/b, 3) in thousandths: the nearest thousandth, an exact tie to the
\* even one (a tie needs 16 to divide b, and a/b is then exact in binary for
\* every b below 80)
RoundThousandths(a, b) ==
    LET q == (1000 * a) \div b
        r == (1000 * a) % b
    IN  IF 2 * r > b THEN q + 1
        ELSE IF 2 * r < b THEN q
        ELSE IF q % 2 = 0 THEN q ELSE q + 1

\* round(a / b if b > 0 else 0, 3) in thousandths
RatioThousandths(a, b) == IF b > 0 THEN RoundThousandths(a, b) ELSE 0

\* re.findall(r'\b\w+\b', u): the maximal runs of word characters
Words(u) ==
    LET starts == {i \in 1..Len(u) : IsWordChar(u[i]) /\ ~IsWordChar(UAt(u, i - 1))}
        stop(i) == SetMin({j \in i..Len(u) : ~IsWordChar(UAt(u, j + 1))})
        nth(k) == CHOOSE i \in starts : Cardinality({j \in starts : j <= i}) = k
    IN  [k \in 1..Cardinality(starts) |-> SubSeq(u, nth(k), stop(nth(k)))]

\* sum(1 for word in words if word in keywords)
CountIn(words, keywords) == Cardinality({k \in 1..Len(words) : words[k] \in keywords})

\* the early return of detect_language
UnknownProfile ==
    [primary_language |-> "unknown", is_mixed |-> FALSE,
     hindi_ratio |-> 0, english_ratio |-> 0]

IsBlankEmptyOnly(u) == u = << >>

\* `not text or not text.strip()`
IsBlank(u) == \A i \in 1..Len(u) : IsSpaceChar(u[i])

is_mixed_either(hindi_chars, total_chars) ==
    \/ Exceeds(hindi_chars, total_chars, MixedThreshold)
    \/ Exceeds(total_chars - hindi_chars, total_chars, MixedThreshold)

\* is_mixed = (hindi_ratio > 0.1 and english_ratio > 0.1)
is_mixed(hindi_chars, total_chars) ==
    /\ Exceeds(hindi_chars, total_chars, MixedThreshold)
    /\ Exceeds(total_chars - hindi_chars, total_chars, MixedThreshold)

primary_language_inclusive(hindi_chars, total_chars) ==
    IF hindi_chars * HindiThreshold.den >= HindiThreshold.num * total_chars THEN "hindi"
    ELSE IF Exceeds(total_chars - hindi_chars, total_chars, EnglishThreshold) THEN "english"
    ELSE "mixed"

\* the chain `if hindi_ratio > 0.3 ... elif english_ratio > 0.7 ... else`
primary_language(hindi_chars, total_chars) ==
    IF Exceeds(hindi_chars, total_chars, HindiThreshold) THEN "hindi"
    ELSE IF Exceeds(total_chars - hindi_chars, total_chars, EnglishThreshold) THEN "english"
    ELSE "mixed"

\* len(self.hindi_pattern.findall(text))
HindiChars(u) == Cardinality({i \in 1..Len(u) : u[i] \in Devanagari})

TotalCharsWordsOnly(u) == Cardinality({i \in 1..Len(u) : IsWordChar(u[i])})

\* len(re.sub(r'\s', '', text))
TotalChars(u) == Cardinality({i \in 1..Len(u) : ~IsSpaceChar(u[i])})

\* detect_language; the ratios are held in thousandths (333 is 0.333).
detect_language(u) ==
    IF IsBlank(u) THEN UnknownProfile
    ELSE LET hindi_chars == HindiChars(u)
             total_chars == TotalChars(u)
             words == Words(ULower(u))
         IN  [primary_language |-> primary_language(hindi_chars, total_chars),
              is_mixed |-> is_mixed(hindi_chars, total_chars),
              hindi_ratio |-> RatioThousandths(hindi_chars, total_chars),
              english_ratio |-> RatioThousandths(total_chars - hindi_chars, total_chars),
              hindi_word_count |-> CountIn(words, hindi_keywords),
              english_word_count |-> CountIn(words, english_keywords),
              total_words |-> Len(words)]

----------------------------------------------------------------------------
(* NLPProcessor: the clause classifiers                                    *)

\* the chain of re.search tests of classify_clause_type; a pattern is an
\* alternation of literals
type_patterns == <<
    [type |-> "Indemnity",
     keywords |-> <<Chars("indemnif"), Chars("hold harmless")>>],
    [type |-> "Confidentiality",
     keywords |-> <<Chars("confidential"), Chars("nda"), Chars("non-disclosure")>>],
    [type |-> "Termination",
     keywords |-> <<Chars("terminat"), Chars("expir"), Chars("cancel")>>],
    [type |-> "Jurisdiction",
     keywords |-> <<Chars("jurisdiction"), Chars("governing law"), Chars("venue")>>],
    [type |-> "Intellectual Property",
     keywords |-> <<Chars("intellectual property"), Chars("ip"), Chars("copyright"), Chars("patent")>>],
    [type |-> "Warranties",
     keywords |-> <<Chars("warrant"), Chars("represent")>>],
    [type |-> "Liability",
     keywords |-> <<Chars("liability"), Chars("limitation of liability")>>],
    [type |-> "Payment",
     keywords |-> <<Chars("payment"), Chars("fee"), Chars("consideration")>>],
    [type |-> "Force Majeure",
     keywords |-> <<Chars("force majeure")>>],
    [type |-> "Dispute Resolution",
     keywords |-> <<Chars("dispute"), Chars("arbitration"), Chars("mediation")>>]
>>

\* the chain of classify_clause_type_multilingual
multilingual_type_patterns == <<
    [type |-> "Indemnity",
     keywords |-> <<Chars("indemnif"),
                  Chars("hold harmless"),
                  <<"u092E", "u0941", "u0906", "u0935", "u091C", "u093E">>,
                  <<"u0939", "u0930", "u094D", "u091C", "u093E", "u0928", "u093E">>>>],
    [type |-> "Confidentiality",
     keywords |-> <<Chars("confidential"),
                  Chars("nda"),
                  Chars("non-disclosure"),
                  <<"u0917", "u094B", "u092A", "u0928", "u0940", "u092F">>,
                  <<"u0917", "u0941", "u092A", "u094D", "u0924">>>>],
    [type |-> "Termination",
     keywords |-> <<Chars("terminat"),
                  Chars("expir"),
                  Chars("cancel"),
                  <<"u0938", "u092E", "u093E", "u092A", "u094D", "u0924", "u093F">>,
                  <<"u0930", "u0926", "u094D", "u0926">>>>],
    [type |-> "Jurisdiction",
     keywords |-> <<Chars("jurisdiction"),
                  Chars("governing law"),
                  Chars("venue"),
                  <<"u0928", "u094D", "u092F", "u093E", "u092F", "u093E", "u0932", "u092F">>,
                  <<"u0915", "u093E", "u0928", "u0942", "u0928">>>>],
    [type |-> "Intellectual Property",
     keywords |-> <<Chars("intellectual property"),
                  Chars("ip"),
                  Chars("copyright"),
                  Chars("patent"),
                  <<"u092C", "u094C", "u0926", "u094D", "u0927", "u093F", "u0915", " ", "u0938", "u0902", "u092A", "u0926", "u093E">>>>],
    [type |-> "Warranties",
     keywords |-> <<Chars("warrant"),
                  Chars("represent"),
                  <<"u0935", "u093E", "u0930", "u0902", "u091F", "u0940">>,
                  <<"u0917", "u093E", "u0930", "u0902", "u091F", "u0940">>>>],
    [type |-> "Liability",
     keywords |-> <<Chars("liability"),
                  Chars("limitation of liability"),
                  <<"u0926", "u093E", "u092F", "u093F", "u0924", "u094D", "u0935">>,
                  <<"u091C", "u093F", "u092E", "u094D", "u092E", "u0947", "u0926", "u093E", "u0930", "u0940">>>>],
    [type |-> "Payment",
     keywords |-> <<Chars("payment"),
                  Chars("fee"),
                  Chars("consideration"),
                  <<"u092D", "u0941", "u0917", "u0924", "u093E", "u0928">>,
                  <<"u0936", "u0941", "u0932", "u094D", "u0915">>>>],
    [type |-> "Force Majeure",
     keywords |-> <<Chars("force majeure"),
                  <<"u0905", "u091A", "u0932", " ", "u092C", "u0932">>>>],
    [type |-> "Dispute Resolution",
     keywords |-> <<Chars("dispute"),
                  Chars("arbitration"),
                  Chars("mediation"),
                  <<"u0935", "u093F", "u0935", "u093E", "u0926">>,
                  <<"u092E", "u0927", "u094D", "u092F", "u0938", "u094D", "u0925", "u0924", "u093E">>>>]
>>

\* re.search(pattern, u): one of the literals occurs in u
SearchAny(keywords, u) == \E k \in 1..Len(keywords) : UContains(u, keywords[k])

\* the if/elif chain: the type of the first pattern that is found
FirstType(table, u) ==
    LET hits == {k \in 1..Len(table) : SearchAny(table[k].keywords, u)}
    IN  IF hits = {} THEN "General" ELSE table[SetMin(hits)].type

classify_clause_type(u) == FirstType(type_patterns, ULower(u))

\* text_to_analyze = f"{clause_text} {normalized_text}".lower()
text_to_analyze(u) == ULower(u \o <<" ">> \o normalize_text(u))

classify_clause_type_multilingual(u) ==
    FirstType(multilingual_type_patterns, text_to_analyze(u))

----------------------------------------------------------------------------
(* Inputs of the multilingual components                                   *)

\* the concatenations of at most n of the blocks (tuples of characters)
RECURSIVE UConcatenations(_, _)
UConcatenations(blocks, n) ==
    IF n = 0 THEN {<< >>}
    ELSE LET shorter == UConcatenations(blocks, n - 1)
         IN  shorter \cup {t \o blocks[b] : t \in shorter, b \in 1..Len(blocks)}

MaxClassifyBlocks == 3

\* the wording of the clauses that are classified: keywords of several
\* categories, the two words of a keyword apart, a capital spelling, and the
\* Hindi words for "terminate" (3 letters and 2 signs) and "compensation"
ClassifyBlocks == <<
    Chars("hold"), Chars("harmless"), Chars(" "),
    Chars("Fee"), Chars("governing"), Chars("law"),
    <<"u0938", "u092E", "u093E", "u092A", "u094D", "u0924">>,
    <<"u092E", "u0941", "u0906", "u0935", "u091C", "u093E">>
>>

ClassifyTexts == UConcatenations(ClassifyBlocks, MaxClassifyBlocks)

----------------------------------------------------------------------------
(* The classifiers: one call of classify_clause_type or of                 *)
(* classify_clause_type_multilingual on a clause                           *)

ClassifyInit ==
    /\ pc = "input"
    /\ clause_text \in ClassifyTexts
    /\ classified = None
    /\ clause_type = "General"
    /\ analysis = None
    /\ clause_analyses = << >>
    /\ composite = None
    /\ text = ""
    /\ clauses = << >>
    /\ profile = None
    /\ normalized = None
    /\ found_terms = None
    /\ AnalyzerUnused
    /\ AppUnused

ClassifyClauseType ==
    /\ pc = "input"
    /\ classified' = [classifier |-> "classify_clause_type",
                      type |-> classify_clause_type(clause_text)]
    /\ pc' = "classified"
    /\ UNCHANGED <<clause_text, clause_type, analysis, clause_analyses, composite,
                   text, clauses, profile, normalized, found_terms, analyzer_vars, app_vars>>

ClassifyClauseTypeMultilingual ==
    /\ pc = "input"
    /\ classified' = [classifier |-> "classify_clause_type_multilingual",
                      type |-> classify_clause_type_multilingual(clause_text)]
    /\ pc' = "classified"
    /\ UNCHANGED <<clause_text, clause_type, analysis, clause_analyses, composite,
                   text, clauses, profile, normalized, found_terms, analyzer_vars, app_vars>>

ClassifyNext == ClassifyClauseType \/ ClassifyClauseTypeMultilingual

ClassifySpec == ClassifyInit /\ [][ClassifyNext]_vars

(* Properties of the classifiers (ClassifySpec)                            *)

Classified == pc = "classified"

\* the priority order of the taxonomy
TypeOrder == <<"Indemnity", "Confidentiality", "Termination", "Jurisdiction",
               "Intellectual Property", "Warranties", "Liability", "Payment",
               "Force Majeure", "Dispute Resolution">>

\* the categories one of whose keywords matches the clause: for the first
\* classifier in the clause text, for the multilingual one in the clause
\* text or in its normalized form (case-insensitively)
MatchingCategories ==
    LET raw        == ULower(clause_text)
        normal     == ULower(normalize_text(clause_text))
    IN  IF classified.classifier = "classify_clause_type"
        THEN {k \in 1..Len(TypeOrder) : SearchAny(type_patterns[k].keywords, raw)}
        ELSE {k \in 1..Len(TypeOrder) :
                \/ SearchAny(multilingual_type_patterns[k].keywords, raw)
                \/ SearchAny(multilingual_type_patterns[k].keywords, normal)}

\* C11: each classifier returns one type of the taxonomy: the type of the
\* first category, in the priority order, one of whose keywords matches the
\* clause, and General exactly when no keyword of any category matches.
C11_FirstMatchInPriorityOrder ==
    Classified =>
        LET matching == MatchingCategories
        IN  /\ \A k \in 1..Len(TypeOrder) :
                  /\ type_patterns[k].type = TypeOrder[k]
                  /\ multilingual_type_patterns[k].type = TypeOrder[k]
                  /\ classified.type = TypeOrder[k]
                        <=> /\ k \in matching
                            /\ \A j \in 1..(k - 1) : j \notin matching
            /\ classified.type = "General" <=> matching = {}

----------------------------------------------------------------------------
(* The language detector: one call of detect_language                      *)

MaxRun == 10
MaxDetectChars == 3

\* n times the character c
URepeat(c, n) == [i \in 1..n |-> c]

\* the characters of the texts whose language is detected: a Latin letter,
\* the Devanagari letter A, the vowel sign I, and white space
DetectChars == <<<<"a">>, <<"u0905">>, <<"u093F">>, <<" ">>, <<"\n">>>>

\* h Devanagari letters followed by e Latin letters
ScriptRuns(h, e) == URepeat("u0905", h) \o URepeat("a", e)

\* a text of 203 characters of which 61 are Devanagari: the ratio 0.30049...
\* is above the threshold and is reported as 0.3
LongDetectText == ScriptRuns(61, 142)

DetectTexts ==
    {ScriptRuns(h, e) : h \in 0..MaxRun, e \in 0..MaxRun}
        \cup UConcatenations(DetectChars, MaxDetectChars)
        \cup {LongDetectText}

DetectInit ==
    /\ pc = "input"
    /\ text \in DetectTexts
    /\ profile = None
    /\ clause_text = ""
    /\ clause_type = "General"
    /\ analysis = None
    /\ clause_analyses = << >>
    /\ composite = None
    /\ clauses = << >>
    /\ normalized = None
    /\ found_terms = None
    /\ classified = None
    /\ AnalyzerUnused
    /\ AppUnused

DetectLanguage ==
    /\ pc = "input"
    /\ profile' = detect_language(text)
    /\ pc' = "detected"
    /\ UNCHANGED <<clause_text, clause_type, analysis, clause_analyses, composite,
                   text, clauses, normalized, found_terms, classified, analyzer_vars, app_vars>>

DetectNext == DetectLanguage

DetectSpec == DetectInit /\ [][DetectNext]_vars

(* Properties of the language detector (DetectSpec)                        *)

Detected == pc = "detected"

WhiteSpace == {" ", "\n", "\t"}

\* the text is empty or holds white space only
BlankText == \A i \in 1..Len(text) : text[i] \in WhiteSpace

\* the Devanagari characters and the characters that are not white space
DevanagariCount == Cardinality({i \in 1..Len(text) : text[i] \in DevanagariRange(0, 127)})
NonSpaceCount == Cardinality({i \in 1..Len(text) : text[i] \notin WhiteSpace})

\* C12: on the empty text and on a text of white space the detector returns
\* primary_language "unknown", is_mixed false and both ratios 0.
C12_BlankIsUnknown ==
    (Detected /\ BlankText) =>
        profile = [primary_language |-> "unknown", is_mixed |-> FALSE,
                   hindi_ratio |-> 0, english_ratio |-> 0]

C12_Witness ==
    /\ Detected
    /\ Len(text) > 0
    /\ BlankText
    /\ profile.primary_language = "unknown"

\* C13: both ratios lie between 0 and 1 (0 and 1000 thousandths): there are
\* never more Devanagari characters than characters that are not white space.
C13_RatiosWithinZeroAndOne ==
    Detected =>
        /\ DevanagariCount <= NonSpaceCount
        /\ 0 <= profile.hindi_ratio /\ profile.hindi_ratio <= 1000
        /\ 0 <= profile.english_ratio /\ profile.english_ratio <= 1000

C13_Witness ==
    /\ Detected
    /\ \E i \in 1..Len(text) : text[i] \in WhiteSpace
    /\ \E i \in 1..Len(text) : text[i] = "u093F"
    /\ profile.hindi_ratio = 1000
    /\ profile.english_ratio = 0

\* C14: for a text that is not blank the primary language is "hindi" when
\* more than 30% of the characters that are not white space are Devanagari,
\* otherwise "english" when more than 70% are not Devanagari, otherwise
\* "mixed"; the comparisons are strict.
C14_PrimaryLanguageRule ==
    (Detected /\ ~BlankText) =>
        LET h == DevanagariCount
            t == NonSpaceCount
        IN  profile.primary_language =
                IF 10 * h > 3 * t THEN "hindi"
                ELSE IF 10 * (t - h) > 7 * t THEN "english"
                ELSE "mixed"

C14_Witness ==
    /\ Detected
    /\ ~BlankText
    /\ 10 * DevanagariCount = 3 * NonSpaceCount
    /\ profile.primary_language = "mixed"

\* C15: for a text that is not blank is_mixed holds exactly when more than
\* 10% of the characters that are not white space are Devanagari and more
\* than 10% are not, whatever the primary language is.
C15_IsMixedRule ==
    (Detected /\ ~BlankText) =>
        LET h == DevanagariCount
            t == NonSpaceCount
        IN  profile.is_mixed <=> (10 * h > t /\ 10 * (t - h) > t)

C15_Witness ==
    /\ Detected
    /\ profile.primary_language = "hindi"
    /\ profile.is_mixed

----------------------------------------------------------------------------
(* The normalizer: one call of create_bilingual_summary, which normalizes  *)
(* the text and lists the dictionary terms found in it                     *)

MaxDateBlocks == 3
MaxHindiBlocks == 3

\* the Hindi for "terminate" (dictionary term; with the vowel sign I added
\* it is the dictionary term for "termination")
Samapt == <<"u0938", "u092E", "u093E", "u092A", "u094D", "u0924">>

\* the Hindi for "company" (dictionary term that ends with a vowel sign)
Kampani == <<"u0915", "u0902", "u092A", "u0928", "u0940">>

\* texts without Hindi: day and month behind either separator, a year, a digit,
\* the rupee sign and a blank
DateBlocks == <<Chars("1-2/"), Chars("12/3-"), Chars("2020"), Chars("5"),
                <<RupeeSign>>, Chars(" ")>>

\* Hindi wording: a Hindi numeral, an ASCII number, the rupee word, a
\* percentage word, dictionary terms and a vowel sign that lengthens a word
HindiBlocks == <<<<"u0967">>, Chars("5"), Chars(" "), Rupaye, Pratishat,
                 Samapt, Kampani, <<"u093F">>>>

\* the entries of the dictionary whose Hindi term is a phrase of two words
PhraseEntries ==
    {k \in 1..Len(legal_terms_dict) :
        \E i \in 1..Len(legal_terms_dict[k].hindi) : legal_terms_dict[k].hindi[i] = " "}

\* 1,000 rupees; 5.5 percent (second percentage word); 10 percent in Hindi
\* numerals; a date and an amount; the two-word terms of the dictionary
NormScenarios ==
    { Chars("1,000 ") \o Rupaye,
      Chars("5.5 ") \o Feesadi,
      <<"u0967", "u0966", " ">> \o Pratishat,
      Chars("01-02-2020 ") \o <<RupeeSign>> \o Chars("500") }
        \cup {legal_terms_dict[k].hindi : k \in PhraseEntries}

NormTexts ==
    UConcatenations(DateBlocks, MaxDateBlocks)
        \cup UConcatenations(HindiBlocks, MaxHindiBlocks)
        \cup NormScenarios

NormalizeInit ==
    /\ pc = "input"
    /\ text \in NormTexts
    /\ normalized = None
    /\ found_terms = None
    /\ clause_text = ""
    /\ clause_type = "General"
    /\ analysis = None
    /\ clause_analyses = << >>
    /\ composite = None
    /\ clauses = << >>
    /\ profile = None
    /\ classified = None
    /\ AnalyzerUnused
    /\ AppUnused

CreateBilingualSummary ==
    /\ pc = "input"
    /\ normalized' = normalize_text(text)
    /\ found_terms' = translate_key_terms(text)
    /\ pc' = "normalized"
    /\ UNCHANGED <<clause_text, clause_type, analysis, clause_analyses, composite,
                   text, clauses, profile, classified, analyzer_vars, app_vars>>

NormalizeNext == CreateBilingualSummary

NormalizeSpec == NormalizeInit /\ [][NormalizeNext]_vars

(* Properties of the normalizer (NormalizeSpec)                            *)

Normalized == pc = "normalized"

NoHindi == \A i \in 1..Len(text) : text[i] \notin DevanagariRange(0, 127)

Occurs(c, u) == \E i \in 1..Len(u) : u[i] = c

\* C16: normalizing a text without Devanagari characters a second time
\* changes nothing, dates with "-" or "/" and the rupee sign included.
C16_IdempotentWithoutHindi ==
    (Normalized /\ NoHindi) => normalize_text(normalized) = normalized

C16_Witness ==
    /\ Normalized
    /\ NoHindi
    /\ Occurs("-", text) /\ Occurs("/", text) /\ Occurs(RupeeSign, text)
    /\ ~Occurs("-", normalized) /\ ~Occurs(RupeeSign, normalized)
    /\ normalize_text(normalized) = normalized

AsciiDigits == {"0", "1", "2", "3", "4", "5", "6", "7", "8", "9"}
HindiDigits == DevanagariRange(102, 111)
PercentWords == {Pratishat, Feesadi}

\* the text is a number written in the digits of the set, white space or
\* nothing, and one of the words; the number is the first n characters
NumberThenWord(digits, words, n) ==
    /\ n >= 1
    /\ n < Len(text)
    /\ \A i \in 1..n : text[i] \in digits
    /\ \E w \in (n + 1)..Len(text) :
          /\ \A i \in (n + 1)..(w - 1) : text[i] \in WhiteSpace
          /\ SubSeq(text, w, Len(text)) \in words

\* the ASCII digits of the first n characters of the text
AsciiNumber(n) ==
    [i \in 1..n |-> IF text[i] \in AsciiDigits THEN text[i]
                    ELSE CHOOSE d \in AsciiDigits :
                            text[i] \in DevanagariRange(102 + (CHOOSE v \in 0..9 : Hex[v + 1] = d),
                                                        102 + (CHOOSE v \in 0..9 : Hex[v + 1] = d))]

\* C17: the stages run in the order numerals, rewrites, dictionary, each on
\* the output of the one before: a number in Hindi numerals followed by a
\* percentage word becomes the ASCII digits followed by "%", and the word is
\* not turned into "percent" as well.
C17_StagesInOrder ==
    Normalized =>
        /\ text # << >> =>
              normalized = ApplyTerms(1, ApplyPatterns(1, ConvertNumerals(text)))
        /\ \A n \in 1..Len(text) :
              NumberThenWord(HindiDigits, PercentWords, n)
                  => normalized = AsciiNumber(n) \o <<"%">>

C17_Witness ==
    /\ Normalized
    /\ NumberThenWord(HindiDigits, PercentWords, 2)
    /\ normalized = <<"1", "0", "%">>

\* C18: the currency and percentage rewrites take the number in front of
\* the marker: a number followed by the rupee word becomes "INR <number>",
\* a number followed by a percentage word becomes "<number>%".
C18_NumberCapturedByRewrite ==
    Normalized =>
        \A n \in 1..Len(text) :
            /\ NumberThenWord(AsciiDigits, {Rupaye}, n)
                  => normalized = Chars("INR ") \o AsciiNumber(n)
            /\ NumberThenWord(AsciiDigits, PercentWords, n)
                  => normalized = AsciiNumber(n) \o <<"%">>

\* a character that belongs to a word: a Devanagari character (letter, sign
\* or digit) or an ASCII word character
InWord(c) == c \in DevanagariRange(0, 127) \/ IsWord(c)

\* the term stands in the text as a whole word
WholeWord(term) ==
    \E i \in 1..Len(text) :
        /\ UOccursAt(term, text, i)
        /\ ~InWord(UAt(text, i - 1))
        /\ ~InWord(UAt(text, i + Len(term)))

Reported(term) == \E k \in 1..Len(found_terms) : found_terms[k].hindi = term

\* C19: a dictionary term is matched as a whole word only: it is reported
\* exactly when it stands in the text as a whole word, a text that is one
\* dictionary term is replaced by the English term, and where no term stands
\* as a whole word the dictionary replaces nothing.
C19_WholeWordTermsOnly ==
    Normalized =>
        /\ \A k \in 1..Len(legal_terms_dict) :
              /\ Reported(legal_terms_dict[k].hindi) <=> WholeWord(legal_terms_dict[k].hindi)
              /\ text = legal_terms_dict[k].hindi
                    => normalized = Chars(legal_terms_dict[k].english)
        /\ (\A k \in 1..Len(legal_terms_dict) : ~WholeWord(legal_terms_dict[k].hindi))
              => normalized = ApplyPatterns(1, ConvertNumerals(text))

----------------------------------------------------------------------------
(* One RiskAnalyzer instance that serves several calls of                  *)
(* analyze_clause_risk, as the clauses of a contract are analyzed in turn  *)

MaxCalls == 3

\* the clauses that are analyzed and the types they are given
SessionTexts == {"unlimited liability",
                 "Unlimited liability: indemnify us for all negligence",
                 "courts of Mumbai"}

SessionTypes == {"Indemnity", "Jurisdiction"}

InstanceAfterCallPopsPattern(self) ==
    [self EXCEPT !.risk_patterns.high_risk = Tail(self.risk_patterns.high_risk)]

\* the instance after a call of analyze_clause_risk: the method and its
\* helpers read self.risk_patterns and self.alternatives, assign to no
\* attribute and build their results in new lists
InstanceAfterCall(self) == self

AnalyzerInit ==
    /\ pc = "ready"
    /\ tables = RiskAnalyzer
    /\ calls = << >>
    /\ clause_text = ""
    /\ clause_type = "General"
    /\ analysis = None
    /\ clause_analyses = << >>
    /\ composite = None
    /\ text = ""
    /\ clauses = << >>
    /\ MultilingualUnused
    /\ AppUnused

AnalyzeCall ==
    /\ pc = "ready"
    /\ Len(calls) < MaxCalls
    /\ \E txt \in SessionTexts, ctype \in SessionTypes :
          /\ clause_text' = txt
          /\ clause_type' = ctype
          /\ analysis' = analyze_clause_risk(tables, txt, ctype)
          /\ calls' = Append(calls, [clause_text |-> txt, clause_type |-> ctype,
                                     result |-> analysis'])
    /\ tables' = InstanceAfterCall(tables)
    /\ UNCHANGED <<pc, clause_analyses, composite, text, clauses, multilingual_vars,
                   app_vars>>

AnalyzerNext == AnalyzeCall

AnalyzerSpec == AnalyzerInit /\ [][AnalyzerNext]_vars

(* Properties of the instance (AnalyzerSpec)                               *)

SameInput(a, b) == a.clause_text = b.clause_text /\ a.clause_type = b.clause_type

----------------------------------------------------------------------------
(* Issues and suggestions of the risk engine (RiskSpec)                    *)

\* the explanations of the patterns of a tier that match the clause text,
\* in the order of the table
TierIssues(tier) ==
    LET s == Fold(clause_text)
        hit(p) == Matches(p.pattern, s)
        hits == SelectSeq(risk_patterns[tier], hit)
    IN  [k \in 1..Len(hits) |-> hits[k].explanation]

TypeIssues ==
    LET found == get_clause_type_risks(clause_type, clause_text).issues
    IN  [k \in 1..Len(found) |-> found[k].issue]

\* the issues of the three tiers, in tier order
TieredIssues ==
    TierIssues("high_risk") \o TierIssues("medium_risk") \o TierIssues("low_risk")

\* the issues collected for the clause, before the truncation
CollectedIssues == TieredIssues \o TypeIssues

TierMatchCount ==
    MatchCount("high_risk") + MatchCount("medium_risk") + MatchCount("low_risk")

ReturnedIssues == [k \in 1..Len(analysis.issues) |-> analysis.issues[k].issue]

\* C21: the issues list holds at most 5 entries and is the first 5 of the
\* collected issues in the order high tier (table order), medium tier, low
\* tier, type-specific issue; the type-specific issue is dropped whenever 5
\* or more tier patterns match.
C21_FirstFiveIssuesInTierOrder ==
    Analyzed =>
        LET tiered   == TieredIssues
            typed    == TypeIssues
            returned == ReturnedIssues
        IN  /\ Len(analysis.issues) <= 5
            /\ returned = Prefix(tiered \o typed, 5)
            /\ Len(tiered) >= 5 =>
                   \A k \in 1..Len(typed) :
                       \A j \in 1..Len(returned) : returned[j] # typed[k]

C21_Witness ==
    /\ Analyzed
    /\ TierMatchCount >= 5
    /\ MatchCount("medium_risk") >= 1
    /\ Len(TypeIssues) = 1
    /\ Len(analysis.issues) = 5
    /\ Len(CollectedIssues) > 5

\* the mitigations of the collected issues, in issue order, those without a
\* mitigation left out
CollectedMitigations ==
    LET given(m) == m # ""
        collected == CollectedIssues
    IN  SelectSeq([k \in 1..Len(collected) |->
                      generate_suggestion(RiskAnalyzer, collected[k])], given)

\* C22: the suggestions list holds at most 3 entries, never the empty
\* string, and each entry is the mitigation that the keyword-to-mitigation
\* mapping gives for the explanation of a collected issue, in issue order.
C22_SuggestionsFromCollectedIssues ==
    Analyzed =>
        /\ Len(analysis.suggestions) <= 3
        /\ \A k \in 1..Len(analysis.suggestions) : analysis.suggestions[k] # ""
        /\ analysis.suggestions = Prefix(CollectedMitigations, 3)

C22_Witness ==
    /\ Analyzed
    /\ Len(analysis.suggestions) = 3
    /\ Len(CollectedIssues) > Len(CollectedMitigations)
    /\ analysis.suggestions[3] = "Suggest 2-5 year term after contract end"

\* C27: every suggestion of a result is the mitigation for an issue in the
\* issues list of the same result; no suggestion refers to an issue that
\* the truncation to 5 cut off.
C27_SuggestionsOfReturnedIssues ==
    Analyzed =>
        \A k \in 1..Len(analysis.suggestions) :
            \E j \in 1..Len(analysis.issues) :
                generate_suggestion(RiskAnalyzer, analysis.issues[j].issue)
                    = analysis.suggestions[k]

----------------------------------------------------------------------------
(* The shape of the language profile (DetectSpec)                          *)

LanguageProfileFields ==
    {"primary_language", "is_mixed", "hindi_ratio", "english_ratio",
     "hindi_word_count", "english_word_count", "total_words"}

\* C25: for every input, the empty and the whitespace-only text included,
\* detect_language returns a complete LanguageProfile: the seven fields are
\* all present, the three counts being 0 for blank input.
C25_CompleteProfile ==
    Detected =>
        /\ DOMAIN profile = LanguageProfileFields
        /\ BlankText =>
               /\ profile.hindi_word_count = 0
               /\ profile.english_word_count = 0
               /\ profile.total_words = 0

----------------------------------------------------------------------------
(* The ids of the clauses (SegmentSpec)                                    *)

\* the segments of the first accepted delimiter
AcceptedSegments == re_split(DelimiterOrder[SetMin(AcceptedSet)], text)

\* C26: the clauses returned by segment_clauses carry the ids 1, 2, ..., n
\* consecutively in text order, without gap or repeat, n being the number
\* of clauses returned, also when a segment is empty or whitespace-only.
C26_ConsecutiveIds ==
    Segmented => \A i \in 1..Len(clauses) : clauses[i].clause_id = i

C26_Witness ==
    /\ Segmented
    /\ AcceptedSet # {}
    /\ Strip(AcceptedSegments[Len(AcceptedSegments)]) = ""
    /\ Len(clauses) = Len(AcceptedSegments) - 2
    /\ Len(clauses) >= 2
    /\ clauses[Len(clauses)].clause_id = Len(clauses)

----------------------------------------------------------------------------
(* The two classifiers on texts without Hindi (ClassifySpec)               *)

\* the clause holds no Devanagari character and no rupee sign
PlainClause ==
    \A i \in 1..Len(clause_text) :
        clause_text[i] \notin Devanagari \cup {RupeeSign}

\* C28: for a clause text without Devanagari character and without rupee
\* sign, classify_clause_type_multilingual returns the type that
\* classify_clause_type returns: the join of the raw text and its
\* normalized copy creates no keyword match of its own.
C28_MultilingualAgreesOnPlainText ==
    (Classified /\ PlainClause
        /\ classified.classifier = "classify_clause_type_multilingual")
        => classified.type = classify_clause_type(clause_text)

----------------------------------------------------------------------------
(* The phrases of the dictionary (NormalizeSpec)                           *)

\* C29: every entry of the dictionary is effective in normalize_text: a
\* text that consists of a two-word phrase of the dictionary ("shall not",
\* "must", "should", "shall maintain", "intellectual property") normalizes
\* to the English equivalent of the phrase and is not rewritten in part by
\* a shorter entry.
C29_PhrasesEffective ==
    Normalized =>
        \A k \in PhraseEntries :
            text = legal_terms_dict[k].hindi
                => normalized = Chars(legal_terms_dict[k].english)

----------------------------------------------------------------------------
(* app.py: the session of the application                                  *)
(*                                                                         *)
(* Streamlit runs the script from top to bottom after every interaction:   *)
(* the sidebar stores the contract that the input widgets hold, then the   *)
(* handler of the button that was pressed runs, and st.rerun() starts the  *)
(* script once more.  An action below is one interaction with the script   *)
(* runs it causes.  The text sections of a report that do not depend on    *)
(* the data are left out of the report records; a report keeps what is     *)
(* formatted into its sections.                                            *)

MinClauseLength == 20
UploadLimit == 15
AnalysisLimit == 10
PreviewLimit == 200

\* the two classes llm_handler can be an instance of: LLMHandler of
\* llm_handler.py, and the class defined when the import fails, which has
\* no generate_detailed_report
Handlers == {"LLMHandler", "fallback"}

\* the loop over the paragraphs that builds the clauses: a paragraph of more
\* than 20 characters becomes a clause whose id is its position
AppClauses(paragraphs) ==
    LET long(i) == Len(paragraphs[i]) > MinClauseLength
        kept == SelectSeq([i \in 1..Len(paragraphs) |-> i], long)
    IN  [k \in 1..Len(kept) |->
            [clause_id |-> kept[k],
             title     |-> "Clause " \o ToString(kept[k]),
             text      |-> Prefix(paragraphs[kept[k]], TextLimit),
             full_text |-> paragraphs[kept[k]]]]

\* the sidebar: `for i, para in enumerate(paragraphs[:15])`
SidebarClauses(txt) == AppClauses(Prefix(Paragraphs(txt), UploadLimit))

\* the sample contract (the rupee sign before 85,000 is written "Rs ")
sample_text ==
    "EMPLOYMENT AGREEMENT\n\nThis Employment Agreement is made on January 15, 2024 between:\n\nINNOVATE TECH SOLUTIONS PVT. LTD.\nAddress: Mumbai, India\n(the \"Company\")\n\nAND\n\nRAJESH SHARMA\nAddress: Delhi, India\n(the \"Employee\")\n\n1. POSITION AND DUTIES\nThe Employee shall serve as Senior Developer. Company may terminate at its sole discretion without cause.\n\n2. COMPENSATION\nMonthly salary: Rs 85,000. Late payment penalty: 5% per month.\n\n3. CONFIDENTIALITY\nEmployee shall maintain confidentiality of all Company information indefinitely.\n\n4. JURISDICTION\nAny disputes shall be subject to exclusive jurisdiction of courts in Singapore.\n\n5. LIABILITY\nEmployee's liability to Company shall be unlimited for any breach.\n\n6. AUTO-RENEWAL\nThis Agreement shall automatically renew for additional one-year terms without notice."

\* the handler of "Load Sample Contract": every paragraph is looked at
SampleClauses == AppClauses(Paragraphs(sample_text))

\* llm_handler.explain_clause(clause["text"])
explain_clause(handler, txt) ==
    IF handler = "LLMHandler"
    THEN "This clause should be reviewed for fairness and clarity."
    ELSE "This clause appears to be standard. For detailed analysis, add OpenAI API key."

\* the simple risk detection of the analysis handler
simple_risk_score(clause_lower) ==
    (IF Contains(clause_lower, "sole discretion") THEN 3 ELSE 0)
    + (IF Contains(clause_lower, "indefinite") /\ Contains(clause_lower, "confidential")
       THEN 3 ELSE 0)
    + (IF /\ Contains(clause_lower, "singapore")
          /\ (Contains(clause_lower, "jurisdiction") \/ Contains(clause_lower, "court"))
       THEN 3 ELSE 0)
    + (IF Contains(clause_lower, "unlimited") /\ Contains(clause_lower, "liability")
       THEN 3 ELSE 0)
    + (IF /\ Contains(clause_lower, "5%")
          /\ (Contains(clause_lower, "penalty") \/ Contains(clause_lower, "late"))
       THEN 2 ELSE 0)

simple_risk_level(risk_score) ==
    IF risk_score >= 3 THEN "High"
    ELSE IF risk_score >= 1 THEN "Medium"
    ELSE "Low"

\* the loop `for i, clause in enumerate(st.session_state.clauses[:10])`
AnalyzeClauses(handler, cls) ==
    [k \in 1..Min(AnalysisLimit, Len(cls)) |->
        LET clause     == cls[k]
            risk_score == simple_risk_score(Lower(clause.text))
        IN  [clause_id    |-> clause.clause_id,
             title        |-> clause.title,
             type         |-> "General",
             risk_score   |-> risk_score,
             risk_level   |-> simple_risk_level(risk_score),
             explanation  |-> explain_clause(handler, clause.text),
             text_preview |-> Prefix(clause.text, PreviewLimit) \o "..."]]

CountRiskLevel(analyses, level) ==
    Cardinality({k \in 1..Len(analyses) : analyses[k].risk_level = level})

\* the composite of the analysis handler: avg_score >= 2.5 is High, >= 1 is
\* Medium; score = round(avg_score, 1) is held in tenths
AppCompositeRisk(analyses) ==
    LET n           == Len(analyses)
        total_score == SumScores(analyses, 1)
    IN  [overall_risk |-> IF n > 0 /\ 2 * total_score >= 5 * n THEN "High"
                          ELSE IF n > 0 /\ total_score >= n THEN "Medium"
                          ELSE "Low",
         score             |-> IF n > 0 THEN RoundTenths(total_score, n) ELSE 0,
         high_risk_count   |-> CountRiskLevel(analyses, "High"),
         medium_risk_count |-> CountRiskLevel(analyses, "Medium"),
         total_clauses     |-> n]

\* the dict stored in st.session_state.analysis_results at the time now
AnalysisResults(handler, cls, now) ==
    LET analyses == AnalyzeClauses(handler, cls)
        composite_risk == AppCompositeRisk(analyses)
    IN  [analyses       |-> analyses,
         composite_risk |-> composite_risk,
         summary        |-> [high_count   |-> composite_risk.high_risk_count,
                             medium_count |-> composite_risk.medium_risk_count,
                             immediate_review |-> composite_risk.high_risk_count > 0],
         timestamp      |-> now]

\* create_basic_report(composite, analyses): the template report
create_basic_report(composite_risk, analyses) ==
    [executive_summary |->
         [clauses      |-> Len(analyses),
          high_risk    |-> composite_risk.high_risk_count,
          medium_risk  |-> composite_risk.medium_risk_count,
          overall_risk |-> composite_risk.overall_risk,
          score        |-> composite_risk.score,
          action_required |-> composite_risk.high_risk_count > 0],
     risk_analysis |->
         [high_risk   |-> composite_risk.high_risk_count,
          medium_risk |-> composite_risk.medium_risk_count,
          low_risk    |-> composite_risk.total_clauses - composite_risk.high_risk_count
                              - composite_risk.medium_risk_count],
     critical_issues |-> <<"Complete clause-by-clause analysis recommended",
                           "Review jurisdiction and dispute resolution clauses",
                           "Verify liability limits and penalty terms",
                           "Check termination and renewal procedures">>,
     red_flags |-> composite_risk.high_risk_count]

\* LLMHandler.generate_detailed_report(analyses, contract_excerpt)
generate_detailed_report(analyses) ==
    LET high(a)   == a.risk_level = "High"
        medium(a) == a.risk_level = "Medium"
        high_risk   == SelectSeq(analyses, high)
        medium_risk == SelectSeq(analyses, medium)
    IN  [executive_summary |-> [high_risk |-> Len(high_risk), medium_risk |-> Len(medium_risk)],
         risk_analysis |->
             [high_risk   |-> Len(high_risk),
              medium_risk |-> Len(medium_risk),
              low_risk    |-> Len(analyses) - Len(high_risk) - Len(medium_risk)],
         critical_issues |->
             IF Len(high_risk) > 0
             THEN [k \in 1..Len(high_risk) |->
                      "Clause " \o ToString(high_risk[k].clause_id)
                          \o " may expose business to high legal or financial risk"]
             ELSE <<"No critical red-flag clauses detected.">>,
         red_flags |-> <<"One-sided termination terms",
                         "Unlimited financial liability",
                         "Foreign jurisdiction clauses">>]

\* what the call of the generator does: the handler has no report method,
\* the call returns, or the call raises
GeneratorOutcomes(handler) ==
    IF handler = "LLMHandler" THEN {"returned", "raised"} ELSE {"absent"}

\* variant of StoredReport: a call that raises stores nothing
StoredReportNoFallback(outcome, results, before) ==
    IF outcome = "returned" THEN <<generate_detailed_report(results.analyses)>>
    ELSE IF outcome = "absent"
    THEN <<create_basic_report(results.composite_risk, results.analyses)>>
    ELSE before

\* st.session_state.detailed_report after the handler of "Generate
\* Comprehensive AI Report": the try block stores what the generator
\* returned, or the template if the handler has no report method; the except
\* block stores the template
StoredReport(outcome, results, before) ==
    IF outcome = "returned" THEN <<generate_detailed_report(results.analyses)>>
    ELSE <<create_basic_report(results.composite_risk, results.analyses)>>

\* the contracts a user pastes or uploads: none, two clauses, a heading too
\* short to be a clause, white space only, short paragraphs only, and one
\* of MaxAppParagraphs paragraphs whose last one is the risky one
MaxAppParagraphs == 11
MaxClock == 2

RECURSIVE LongContract(_)
LongContract(n) ==
    IF n = 1 THEN "Liability of the buyer is unlimited for any breach."
    ELSE "The supplier shall deliver the goods on time.\n\n" \o LongContract(n - 1)

AppContracts ==
    {"",
     "Company may terminate at its sole discretion.\n\nPayment is due within thirty days.",
     "SERVICE AGREEMENT\n\nDisputes go to the courts in Singapore.\n\nLate payment penalty: 5% per month.",
     "  \n\n ",
     "Short.\n\nTiny.",
     LongContract(MaxAppParagraphs)}

\* the clauses of every contract, computed once
SegmentedContracts == [w \in AppContracts |-> SidebarClauses(w)]

\* the state of the session after the sidebar ran with the widgets holding w
SidebarStore(w, stored) ==
    IF w # ""
    THEN [contract_text |-> w, clauses |-> SegmentedContracts[w]]
    ELSE stored

History(handler, outcome) ==
    [handler |-> handler, outcome |-> outcome, results_before |-> analysis_results]

AppInit ==
    /\ pc = "session"
    /\ clause_text = ""
    /\ clause_type = "General"
    /\ analysis = None
    /\ clause_analyses = << >>
    /\ composite = None
    /\ text = ""
    /\ MultilingualUnused
    /\ AnalyzerUnused
    /\ contract_text = ""
    /\ text_input = ""
    /\ clauses = << >>
    /\ analysis_results = << >>
    /\ detailed_report = << >>
    /\ llm_handler \in Handlers
    /\ clock = 0
    /\ history = [handler |-> "start", outcome |-> "none", results_before |-> << >>]

\* the user pastes or uploads a contract, or clears the input: the sidebar
\* stores a contract that is not empty and segments it
LoadContract ==
    /\ \E w \in AppContracts \ {text_input} :
          LET stored == SidebarStore(w, [contract_text |-> contract_text,
                                         clauses |-> clauses])
          IN  /\ text_input' = w
              /\ contract_text' = stored.contract_text
              /\ clauses' = stored.clauses
              /\ history' = History("load_contract", IF w # "" THEN "stored" ELSE "kept")
    /\ UNCHANGED <<pc, clause_text, clause_type, analysis, clause_analyses, composite,
                   text, multilingual_vars, analyzer_vars, analysis_results,
                   detailed_report, llm_handler, clock>>

\* "Load Sample Contract": the handler stores the sample and its clauses and
\* calls st.rerun(); in the run that follows, the sidebar stores the contract
\* of the input widgets again
LoadSample ==
    /\ LET stored == SidebarStore(text_input, [contract_text |-> sample_text,
                                               clauses |-> SampleClauses])
       IN  /\ contract_text' = stored.contract_text
           /\ clauses' = stored.clauses
           /\ history' = History("load_sample",
                                 IF text_input = "" THEN "stored" ELSE "overwritten")
    /\ UNCHANGED <<pc, clause_text, clause_type, analysis, clause_analyses, composite,
                   text, multilingual_vars, analyzer_vars, text_input, analysis_results,
                   detailed_report, llm_handler, clock>>

\* "Run AI Analysis": the try block analyses the clauses and stores the
\* results; if a call of the handler raises, the except block stores nothing
RunAnalysis ==
    /\ contract_text # ""
    /\ clock < MaxClock
    /\ \/ /\ analysis_results' = <<AnalysisResults(llm_handler, clauses, clock)>>
          /\ history' = History("run_analysis", "stored")
       \/ /\ Len(clauses) > 0
          /\ analysis_results' = analysis_results
          /\ history' = History("run_analysis", "raised")
    /\ clock' = clock + 1
    /\ UNCHANGED <<pc, clause_text, clause_type, analysis, clause_analyses, composite,
                   text, clauses, multilingual_vars, analyzer_vars, contract_text,
                   text_input, detailed_report, llm_handler>>

\* "Generate Comprehensive AI Report", shown while results are stored
GenerateReport ==
    /\ analysis_results # << >>
    /\ \E outcome \in GeneratorOutcomes(llm_handler) :
          /\ detailed_report' = StoredReport(outcome, analysis_results[1], detailed_report)
          /\ history' = History("generate_report", outcome)
    /\ UNCHANGED <<pc, clause_text, clause_type, analysis, clause_analyses, composite,
                   text, clauses, multilingual_vars, analyzer_vars, contract_text,
                   text_input, analysis_results, llm_handler, clock>>

\* "Generate New Report", shown while a report is stored
ResetReport ==
    /\ analysis_results # << >>
    /\ detailed_report # << >>
    /\ detailed_report' = << >>
    /\ history' = History("reset_report", "cleared")
    /\ UNCHANGED <<pc, clause_text, clause_type, analysis, clause_analyses, composite,
                   text, clauses, multilingual_vars, analyzer_vars, contract_text,
                   text_input, analysis_results, llm_handler, clock>>

AppNext ==
    \/ LoadContract
    \/ LoadSample
    \/ RunAnalysis
    \/ GenerateReport
    \/ ResetReport

AppSpec == AppInit /\ [][AppNext]_vars

----------------------------------------------------------------------------
(* Properties of the session (AppSpec)                                     *)

AnalysisStored == history.handler = "run_analysis" /\ history.outcome = "stored"

\* C24: after an analysis run every clause of the stored contract has
\* exactly one analysis record with its clause_id, and total_clauses of the
\* composite is the number of clauses.
C24_EveryClauseAnalysedOnce ==
    AnalysisStored =>
        LET analyses == analysis_results[1].analyses
        IN  /\ \A k \in 1..Len(clauses) :
                  Cardinality({j \in 1..Len(analyses) :
                                  analyses[j].clause_id = clauses[k].clause_id}) = 1
            /\ Len(analyses) = Len(clauses)
            /\ analysis_results[1].composite_risk.total_clauses = Len(clauses)

\* C30: in every state of the session, stored analysis results are the
\* results of the clauses of the stored contract, and a stored report is a
\* report of the stored analysis results.
C30_ResultsOfStoredContract ==
    /\ analysis_results # << >> =>
          /\ analysis_results[1].analyses = AnalyzeClauses(llm_handler, clauses)
          /\ analysis_results[1].composite_risk
                 = AppCompositeRisk(AnalyzeClauses(llm_handler, clauses))
    /\ detailed_report # << >> =>
          /\ analysis_results # << >>
          /\ \E outcome \in GeneratorOutcomes(llm_handler) :
                detailed_report = StoredReport(outcome, analysis_results[1], << >>)

\* C23: when the report handler has run, a report is stored; if the call of
\* the generator raised or the handler has no report method, the stored
\* report is the template built from the composite risk and the analyses;
\* the stored analysis results are the ones the handler found.
C23_ReportAlwaysStored ==
    history.handler = "generate_report" =>
        /\ detailed_report # << >>
        /\ history.outcome \in {"raised", "absent"} =>
              detailed_report
                  = <<create_basic_report(analysis_results[1].composite_risk,
                                          analysis_results[1].analyses)>>
        /\ analysis_results = history.results_before
        /\ analysis_results # << >>

\* the generator raised for results with a high-risk clause, after an
\* earlier report was cleared or none was made
C23_Witness ==
    /\ history.handler = "generate_report"
    /\ history.outcome = "raised"
    /\ detailed_report # << >>
    /\ analysis_results[1].composite_risk.high_risk_count > 0
    /\ detailed_report[1].risk_analysis.high_risk
           = analysis_results[1].composite_risk.high_risk_count

====
